---- MODULE Spec2Model ----
(***************************************************************************)
(* A model of the combat core of isekai-genesis (crates/game-core), with   *)
(* the server and WASM entry points that drive it.                         *)
(*                                                                         *)
(* Indices are 0-based as in the Rust source; a Rust Vec v is a TLA+       *)
(* sequence and v[i] is written At(v, i).                                  *)
(***************************************************************************)
EXTENDS Integers, Sequences, FiniteSets, TLC

VARIABLES
    bf,         \* SpecField: the attacking GcBattlefield (its slots)
    enemy_bf,   \* SpecField: the opposing GcBattlefield (its slots)
    sweep,      \* SpecField: the last battlefield operation and what it returned
    battle,     \* SpecBattle: the GcBattleState
    last,       \* SpecBattle: the last call on the battle: entry point, caller, outcome
    replay,     \* SpecReplay: two battles, each with the result of its last merge
    boss,       \* SpecBoss: the GcBoss
    bossLast,   \* SpecBoss: the last call on the boss: method, arguments, what it returned
    arena,      \* SpecArena: the GcBattleArena
    bench,      \* SpecArena: the player's bench, a Vec<GcMonster>
    graveyard,  \* SpecArena: the GcGraveyard (its monsters)
    turn_state, \* SpecTurn: the GcTurnState
    arenaLast,  \* SpecArena: the last call: function, arguments, what it returned
    server,     \* SpecRooms: the GsAppState: rooms, connected players, room ids given out
    sockets     \* SpecRooms: each connection's gs_handle_socket: its locals and where it is

fieldVars == <<bf, enemy_bf, sweep>>
battleVars == <<battle, last>>
replayVars == <<replay>>
bossVars == <<boss, bossLast>>

arenaVars == <<arena, bench, graveyard, turn_state, arenaLast>>

serverVars == <<server, sockets>>

vars == <<bf, enemy_bf, sweep, battle, last, replay, boss, bossLast,
          arena, bench, graveyard, turn_state, arenaLast, server, sockets>>

----------------------------------------------------------------------------
(* Helpers for Rust's 0-based Vec.                                         *)

At(v, i) == v[i + 1]

SetAt(v, i, x) == [v EXCEPT ![i + 1] = x]

Max(a, b) == IF a >= b THEN a ELSE b

Min(a, b) == IF a <= b THEN a ELSE b

\* a.saturating_sub(b) on u32
SatSub(a, b) == IF a >= b THEN a - b ELSE 0

\* Vec::remove(index)
RemoveAt(v, i) == [k \in 1..(Len(v) - 1) |-> IF k <= i THEN v[k] ELSE v[k + 1]]

\* position(|x| x.id == id): the first index whose element has the id, or -1
RECURSIVE PositionFrom(_, _, _)
PositionFrom(v, id, i) ==
    IF i >= Len(v) THEN -1
    ELSE IF At(v, i).id = id THEN i
    ELSE PositionFrom(v, id, i + 1)

Position(v, id) == PositionFrom(v, id, 0)

----------------------------------------------------------------------------
(* Cards (gc_card.rs).                                                     *)

\* Option::None for a slot's card
NoCard == [id |-> "none"]

gc_new_attack(id, cost, damage) ==
    [id |-> id, card_type |-> "Attack", cost |-> cost, base_damage |-> damage,
     base_defense |-> 0, target_type |-> "SingleEnemy"]

gc_new_defense(id, cost, defense) ==
    [id |-> id, card_type |-> "Defense", cost |-> cost, base_damage |-> 0,
     base_defense |-> defense, target_type |-> "SelfTarget"]

gc_needs_target(card) == card.target_type \in {"SingleEnemy", "SingleAlly"}

----------------------------------------------------------------------------
(* Battlefield slots (gc_battlefield.rs).                                  *)

Slot_gc_new == [card |-> NoCard, can_attack |-> FALSE, remaining_hp |-> 0]

gc_is_empty(slot) == slot.card = NoCard

Slot_gc_deploy(slot, card) ==
    [card |-> card,
     can_attack |-> FALSE,
     remaining_hp |-> IF card.card_type = "Defense" THEN card.base_defense
                      ELSE Max(card.base_damage, 1)]

Slot_gc_remove(slot) == [card |-> NoCard, can_attack |-> FALSE, remaining_hp |-> 0]

gc_enable_attack(slot) ==
    IF slot.card # NoCard THEN [slot EXCEPT !.can_attack = TRUE] ELSE slot

\* a hit that destroys the card only when the damage exceeds its remaining hp
Slot_gc_take_damage_strict(slot, damage) ==
    IF slot.remaining_hp < damage
    THEN [slot |-> Slot_gc_remove([slot EXCEPT !.remaining_hp = 0]), destroyed |-> TRUE]
    ELSE [slot |-> [slot EXCEPT !.remaining_hp = slot.remaining_hp - damage],
          destroyed |-> FALSE]

\* returns the slot after the hit and whether the card was destroyed
Slot_gc_take_damage(slot, damage) ==
    IF slot.remaining_hp <= damage
    THEN [slot |-> Slot_gc_remove([slot EXCEPT !.remaining_hp = 0]), destroyed |-> TRUE]
    ELSE [slot |-> [slot EXCEPT !.remaining_hp = slot.remaining_hp - damage],
          destroyed |-> FALSE]

Bf_gc_new(slot_count) == [i \in 1..slot_count |-> Slot_gc_new]

\* a deploy that does not look whether the slot is occupied
gc_deploy_to_slot_overwrite(slots, slot_index, card) ==
    IF slot_index >= Len(slots) THEN [slots |-> slots, res |-> "ErrInvalidSlot"]
    ELSE [slots |-> SetAt(slots, slot_index, Slot_gc_deploy(At(slots, slot_index), card)),
          res |-> "Ok"]

\* Result<(), String>: the battlefield afterwards and the outcome
gc_deploy_to_slot(slots, slot_index, card) ==
    IF slot_index >= Len(slots) THEN [slots |-> slots, res |-> "ErrInvalidSlot"]
    ELSE IF ~gc_is_empty(At(slots, slot_index))
    THEN [slots |-> slots, res |-> "ErrOccupied"]
    ELSE [slots |-> SetAt(slots, slot_index, Slot_gc_deploy(At(slots, slot_index), card)),
          res |-> "Ok"]

gc_remove_from_slot(slots, slot_index) ==
    IF slot_index >= Len(slots) THEN slots
    ELSE SetAt(slots, slot_index, Slot_gc_remove(At(slots, slot_index)))

\* a turn start that flags every slot, the empty ones included
Bf_gc_on_turn_start_every_slot(slots) ==
    [i \in 1..Len(slots) |-> [slots[i] EXCEPT !.can_attack = TRUE]]

Bf_gc_on_turn_start(slots) == [i \in 1..Len(slots) |-> gc_enable_attack(slots[i])]

\* a sweep that aims every attack at the first opposing slot
target_slot_index_first(i) == 0

\* let target_slot_index = i
target_slot_index(i) == i

EmptyCombatResult == [attacks |-> <<>>, player_damage |-> 0, cards_destroyed |-> 0]

\* the for loop of gc_attack_battlefield from index i on
RECURSIVE SweepFrom(_, _, _, _)
SweepFrom(i, self, enemy, result) ==
    IF i >= Len(self) THEN [enemy |-> enemy, result |-> result]
    ELSE LET slot == At(self, i) IN
         IF ~slot.can_attack \/ slot.card = NoCard
         THEN SweepFrom(i + 1, self, enemy, result)
         ELSE LET damage == slot.card.base_damage
                  t == target_slot_index(i) IN
              IF t >= Len(enemy)
              THEN SweepFrom(i + 1, self, enemy, result)
              ELSE IF ~gc_is_empty(At(enemy, t))
              THEN LET hit == Slot_gc_take_damage(At(enemy, t), damage) IN
                   SweepFrom(i + 1, self, SetAt(enemy, t, hit.slot),
                       [attacks |-> Append(result.attacks,
                            [attacker_slot |-> i, target_slot |-> t, damage |-> damage,
                             target_destroyed |-> hit.destroyed, hit_player |-> FALSE]),
                        player_damage |-> result.player_damage,
                        cards_destroyed |-> result.cards_destroyed
                                            + (IF hit.destroyed THEN 1 ELSE 0)])
              ELSE SweepFrom(i + 1, self, enemy,
                       [attacks |-> Append(result.attacks,
                            [attacker_slot |-> i, target_slot |-> t, damage |-> damage,
                             target_destroyed |-> FALSE, hit_player |-> TRUE]),
                        player_damage |-> result.player_damage + damage,
                        cards_destroyed |-> result.cards_destroyed])

\* a sweep that leaves the attackers eligible
gc_attack_battlefield_no_reset(self, enemy) ==
    LET swept == SweepFrom(0, self, enemy, EmptyCombatResult) IN
    [self |-> self, enemy |-> swept.enemy, result |-> swept.result]

\* both battlefields afterwards and the GcBattlefieldCombatResult
gc_attack_battlefield(self, enemy) ==
    LET swept == SweepFrom(0, self, enemy, EmptyCombatResult) IN
    [self |-> [i \in 1..Len(self) |-> [self[i] EXCEPT !.can_attack = FALSE]],
     enemy |-> swept.enemy,
     result |-> swept.result]

----------------------------------------------------------------------------
(* The public card pool (gc_card_pool.rs).                                 *)

\* GcCard::gc_new_heal and GcCard::gc_new_special are called by
\* gc_generate_card_pool but defined in no file of the source tree; the cards
\* are taken to deal no damage, give no defense and need no target
gc_new_heal(id, cost, heal) ==
    [id |-> id, card_type |-> "Skill", cost |-> cost, base_damage |-> 0,
     base_defense |-> 0, target_type |-> "SelfTarget"]

gc_new_special(id, cost) ==
    [id |-> id, card_type |-> "Special", cost |-> cost, base_damage |-> 0,
     base_defense |-> 0, target_type |-> "None"]

\* the card with running number card_id (0-based) of a generated pool
gc_generate_card_pool(size) ==
    LET attack_count == (size * 40) \div 100
        defense_count == (size * 25) \div 100
        heal_count == (size * 20) \div 100
    IN [k \in 1..size |->
          LET card_id == k - 1 IN
          IF card_id < attack_count
          THEN gc_new_attack("pool_atk_" \o ToString(card_id), 1, 5 + (card_id % 3) * 5)
          ELSE IF card_id < attack_count + defense_count
          THEN gc_new_defense("pool_def_" \o ToString(card_id), 1,
                              5 + ((card_id - attack_count) % 3) * 5)
          ELSE IF card_id < attack_count + defense_count + heal_count
          THEN gc_new_heal("pool_heal_" \o ToString(card_id), 1,
                           3 + ((card_id - attack_count - defense_count) % 3) * 3)
          ELSE gc_new_special("pool_special_" \o ToString(card_id), 2)]

\* draw_pile.shuffle(&mut thread_rng()): any order of the pile may come out
gc_shuffle_draw_pile(pile) ==
    {[k \in 1..Len(pile) |-> pile[f[k]]] : f \in Permutations(1..Len(pile))}

\* the pools gc_refill_display can leave (one per outcome of its shuffles)
RECURSIVE gc_refill_display(_)
gc_refill_display(pool) ==
    IF Len(pool.display) >= pool.config.display_size THEN {pool}
    ELSE IF pool.draw_pile # <<>>
    THEN gc_refill_display(
             [pool EXCEPT !.draw_pile = SubSeq(pool.draw_pile, 1, Len(pool.draw_pile) - 1),
                          !.display = Append(pool.display,
                                             pool.draw_pile[Len(pool.draw_pile)])])
    ELSE IF pool.discard_pile # <<>>
    THEN UNION {gc_refill_display([pool EXCEPT !.draw_pile = pile, !.discard_pile = <<>>]) :
                    pile \in gc_shuffle_draw_pile(pool.draw_pile \o pool.discard_pile)}
    ELSE {pool}

Pool_gc_new(config) ==
    [config |-> config, draw_pile |-> <<>>, display |-> <<>>, discard_pile |-> <<>>]

\* the pools gc_initialize can leave
gc_initialize(pool) ==
    UNION {gc_refill_display([pool EXCEPT !.draw_pile = pile]) :
               pile \in gc_shuffle_draw_pile(gc_generate_card_pool(pool.config.initial_pool_size))}

\* Option<GcCard> and the pools left: found is FALSE for None
gc_acquire_card(pool, card_id) ==
    LET index == Position(pool.display, card_id) IN
    IF index >= 0
    THEN {[pool |-> p, found |-> TRUE, card |-> At(pool.display, index)] :
              p \in gc_refill_display([pool EXCEPT !.display = RemoveAt(pool.display, index)])}
    ELSE {[pool |-> pool, found |-> FALSE, card |-> NoCard]}

gc_refresh_display(pool) ==
    gc_refill_display([pool EXCEPT !.discard_pile = pool.discard_pile \o pool.display,
                                   !.display = <<>>])

----------------------------------------------------------------------------
(* Players (gc_player.rs) and the configuration they start from            *)
(* (gc_types.rs).                                                          *)

DEFAULT_HP == 100

DEFAULT_ATTACK == 10

DEFAULT_DEFENSE == 5

DEFAULT_ENERGY == 3

MAX_HAND_SIZE == 10

\* slot_count of GcBattlefieldConfig::default, and the limit gc_deploy_card checks
DEFAULT_SLOT_COUNT == 5

\* action_points and max_action_points of GcPlayerStats::default
DEFAULT_ACTION_POINTS == 5

Player_gc_new(id) ==
    [id |-> id, hp |-> DEFAULT_HP, attack |-> DEFAULT_ATTACK, defense |-> DEFAULT_DEFENSE,
     energy |-> DEFAULT_ENERGY, action_points |-> DEFAULT_ACTION_POINTS,
     max_action_points |-> DEFAULT_ACTION_POINTS, state |-> "Alive",
     max_energy |-> 10, hand |-> <<>>, deck |-> <<>>, discard |-> <<>>,
     battlefield |-> Bf_gc_new(DEFAULT_SLOT_COUNT)]

Stats_gc_take_damage(player, damage) == [player EXCEPT !.hp = SatSub(player.hp, damage)]

gc_is_alive(player) == player.hp > 0

gc_has_action_points(player, cost) == player.action_points >= cost

gc_use_action_points(player, cost) ==
    IF player.action_points >= cost
    THEN [player EXCEPT !.action_points = player.action_points - cost]
    ELSE player

gc_reset_action_points(player) ==
    [player EXCEPT !.action_points = player.max_action_points]

gc_can_act(player) == player.state = "Alive" /\ gc_is_alive(player)

gc_is_hand_full(player) == Len(player.hand) >= MAX_HAND_SIZE

\* the index of the card in the hand, or -1 for None
gc_find_card_in_hand(player, card_id) == Position(player.hand, card_id)

gc_remove_card_from_hand(player, card_id) ==
    LET index == Position(player.hand, card_id) IN
    IF index >= 0 THEN [player EXCEPT !.hand = RemoveAt(player.hand, index)] ELSE player

\* Result<(), String>: the player afterwards and the outcome
gc_deploy_to_battlefield(player, card_id, slot_index) ==
    LET index == Position(player.hand, card_id) IN
    IF index < 0 THEN [player |-> player, res |-> "ErrNotInHand"]
    ELSE LET card == At(player.hand, index)
             removed == gc_remove_card_from_hand(player, card_id)
             r == gc_deploy_to_slot(removed.battlefield, slot_index, card) IN
         IF r.res # "Ok"
         THEN [player |-> [removed EXCEPT !.hand = Append(removed.hand, card)], res |-> r.res]
         ELSE [player |-> [removed EXCEPT !.battlefield = r.slots], res |-> "Ok"]

----------------------------------------------------------------------------
(* The battle aggregate (gc_battle.rs).                                    *)

\* Option::None for a player id
NoPlayer == "None"

\* the index of the first player with the id, or -1 for None
gc_find_player(b, player_id) == Position(b.players, player_id)

gc_current_player_id(b) ==
    IF b.current_player_index < Len(b.players)
    THEN At(b.players, b.current_player_index).id
    ELSE NoPlayer

gc_is_finished(b) == b.phase = "Finished"

\* a victory evaluation that misses the battle nobody survives
gc_check_battle_end_sole_survivor(b) ==
    LET alive_players == SelectSeq(b.players, gc_can_act) IN
    IF Len(alive_players) = 1
    THEN [b EXCEPT !.phase = "Finished", !.winner_id = alive_players[1].id]
    ELSE b

gc_check_battle_end(b) ==
    LET alive_players == SelectSeq(b.players, gc_can_act) IN
    IF Len(alive_players) <= 1
    THEN [b EXCEPT !.phase = "Finished",
                   !.winner_id = IF alive_players = <<>> THEN NoPlayer
                                 ELSE alive_players[1].id]
    ELSE b

\* the for loop of gc_next_turn from offset i on
RECURSIVE NextTurnFrom(_, _)
NextTurnFrom(b, i) ==
    LET player_count == Len(b.players) IN
    IF i > player_count THEN gc_check_battle_end(b)
    ELSE LET next_index == (b.current_player_index + i) % player_count IN
         IF gc_can_act(At(b.players, next_index))
         THEN LET moved == [b EXCEPT
                      !.players = SetAt(b.players, next_index,
                                        gc_reset_action_points(At(b.players, next_index))),
                      !.current_player_index = next_index] IN
              [moved EXCEPT
                  !.turn = IF next_index <= moved.current_player_index
                           THEN moved.turn + 1 ELSE moved.turn,
                  !.phase = "DrawCard"]
         ELSE NextTurnFrom(b, i + 1)

\* a turn advance whose search starts at the present player
gc_next_turn_from_present(b) == NextTurnFrom(b, 0)

gc_next_turn(b) == NextTurnFrom(b, 1)

\* Result<GcCard, GcError>: the outcomes, one per outcome of the pool's shuffles
gc_acquire_card_from_pool(b, player_id, card_id) ==
    IF gc_current_player_id(b) # player_id THEN {[b |-> b, res |-> "GcNotYourTurn"]}
    ELSE LET idx == gc_find_player(b, player_id) IN
    IF idx < 0 THEN {[b |-> b, res |-> "GcPlayerNotFound"]}
    ELSE LET player == At(b.players, idx)
             cost == b.card_pool.config.acquire_cost IN
    IF ~gc_has_action_points(player, cost) THEN {[b |-> b, res |-> "GcNotEnoughActionPoints"]}
    ELSE IF gc_is_hand_full(player) THEN {[b |-> b, res |-> "GcHandFull"]}
    ELSE {IF ~a.found THEN [b |-> [b EXCEPT !.card_pool = a.pool], res |-> "GcCardNotInPool"]
          ELSE LET paid == gc_use_action_points(player, cost) IN
               [b |-> [b EXCEPT !.card_pool = a.pool,
                                !.players = SetAt(b.players, idx,
                                    [paid EXCEPT !.hand = Append(paid.hand, a.card)])],
                res |-> "Ok"]
          : a \in gc_acquire_card(b.card_pool, card_id)}

\* Result<(), GcError>: the outcomes, one per outcome of the pool's shuffles
gc_refresh_pool(b, player_id) ==
    IF gc_current_player_id(b) # player_id THEN {[b |-> b, res |-> "GcNotYourTurn"]}
    ELSE LET idx == gc_find_player(b, player_id) IN
    IF idx < 0 THEN {[b |-> b, res |-> "GcPlayerNotFound"]}
    ELSE LET player == At(b.players, idx)
             cost == b.card_pool.config.refresh_cost IN
    IF ~gc_has_action_points(player, cost) THEN {[b |-> b, res |-> "GcNotEnoughActionPoints"]}
    ELSE {[b |-> [b EXCEPT !.players = SetAt(b.players, idx, gc_use_action_points(player, cost)),
                           !.card_pool = pool],
           res |-> "Ok"]
          : pool \in gc_refresh_display(b.card_pool)}

\* a deploy that charges the action point before it looks for the card
gc_deploy_card_pay_first(b, player_id, card_id, slot_index) ==
    IF gc_current_player_id(b) # player_id THEN [b |-> b, res |-> "GcNotYourTurn"]
    ELSE LET idx == gc_find_player(b, player_id) IN
    IF idx < 0 THEN [b |-> b, res |-> "GcPlayerNotFound"]
    ELSE LET player == At(b.players, idx) IN
    IF ~gc_has_action_points(player, 1) THEN [b |-> b, res |-> "GcNotEnoughActionPoints"]
    ELSE LET paid == gc_use_action_points(player, 1)
             d == gc_deploy_to_battlefield(paid, card_id, slot_index) IN
         [b |-> [b EXCEPT !.players = SetAt(b.players, idx, d.player)],
          res |-> IF d.res # "Ok" THEN "GcInvalidAction" ELSE "Ok"]

\* Result<(), GcError>
gc_deploy_card(b, player_id, card_id, slot_index) ==
    IF gc_current_player_id(b) # player_id THEN [b |-> b, res |-> "GcNotYourTurn"]
    ELSE LET idx == gc_find_player(b, player_id) IN
    IF idx < 0 THEN [b |-> b, res |-> "GcPlayerNotFound"]
    ELSE LET player == At(b.players, idx) IN
    IF ~gc_has_action_points(player, 1) THEN [b |-> b, res |-> "GcNotEnoughActionPoints"]
    ELSE IF slot_index >= 5 THEN [b |-> b, res |-> "GcInvalidSlot"]
    ELSE IF ~gc_is_empty(At(player.battlefield, slot_index))
    THEN [b |-> b, res |-> "GcSlotOccupied"]
    ELSE IF gc_find_card_in_hand(player, card_id) < 0 THEN [b |-> b, res |-> "GcCardNotInHand"]
    ELSE LET paid == gc_use_action_points(player, 1)
             d == gc_deploy_to_battlefield(paid, card_id, slot_index) IN
         [b |-> [b EXCEPT !.players = SetAt(b.players, idx, d.player)],
          res |-> IF d.res # "Ok" THEN "GcInvalidAction" ELSE "Ok"]

\* a turn combat whose counter-sweep starts from the opponent's battlefield
\* as it stood before the first sweep
gc_execute_turn_combat_simultaneous(b, current_player_id) ==
    LET current_idx == gc_find_player(b, current_player_id) IN
    IF current_idx < 0 THEN [b |-> b, res |-> "None"]
    ELSE LET opponent_idx == (current_idx + 1) % Len(b.players) IN
    IF opponent_idx = current_idx THEN [b |-> b, res |-> "None"]
    ELSE LET started == Bf_gc_on_turn_start(At(b.players, current_idx).battlefield)
             player_combat == gc_attack_battlefield(started,
                                  At(b.players, opponent_idx).battlefield)
             opponent_damage == player_combat.result.player_damage
             opponent_combat == gc_attack_battlefield(
                                    Bf_gc_on_turn_start(At(b.players, opponent_idx).battlefield),
                                    player_combat.self)
             player_damage == opponent_combat.result.player_damage
             p1 == [At(b.players, current_idx) EXCEPT !.battlefield = opponent_combat.enemy]
             p2 == [At(b.players, opponent_idx) EXCEPT
                       !.battlefield = [k \in 1..Len(player_combat.enemy) |->
                                          [player_combat.enemy[k] EXCEPT !.can_attack = FALSE]]]
             fought == SetAt(SetAt(b.players, current_idx, Stats_gc_take_damage(p1, player_damage)),
                             opponent_idx, Stats_gc_take_damage(p2, opponent_damage))
         IN [b |-> gc_check_battle_end([b EXCEPT !.players = fought]), res |-> "Some"]

\* Option<GcEndTurnResult>: res is "None" or "Some"
gc_execute_turn_combat(b, current_player_id) ==
    LET current_idx == gc_find_player(b, current_player_id) IN
    IF current_idx < 0 THEN [b |-> b, res |-> "None"]
    ELSE LET opponent_idx == (current_idx + 1) % Len(b.players) IN
    IF opponent_idx = current_idx THEN [b |-> b, res |-> "None"]
    ELSE LET started == Bf_gc_on_turn_start(At(b.players, current_idx).battlefield)
             player_combat == gc_attack_battlefield(started,
                                  At(b.players, opponent_idx).battlefield)
             opponent_damage == player_combat.result.player_damage
             opponent_combat == gc_attack_battlefield(
                                    Bf_gc_on_turn_start(player_combat.enemy),
                                    player_combat.self)
             player_damage == opponent_combat.result.player_damage
             p1 == [At(b.players, current_idx) EXCEPT !.battlefield = opponent_combat.enemy]
             p2 == [At(b.players, opponent_idx) EXCEPT !.battlefield = opponent_combat.self]
             fought == SetAt(SetAt(b.players, current_idx, Stats_gc_take_damage(p1, player_damage)),
                             opponent_idx, Stats_gc_take_damage(p2, opponent_damage))
         IN [b |-> gc_check_battle_end([b EXCEPT !.players = fought]), res |-> "Some"]

\* Result<(), GcError>
gc_validate_play_card(b, player_id, card_id, target_id) ==
    IF gc_is_finished(b) THEN "GcBattleEnded"
    ELSE IF gc_current_player_id(b) # player_id THEN "GcNotYourTurn"
    ELSE LET idx == gc_find_player(b, player_id) IN
    IF idx < 0 THEN "GcPlayerNotFound"
    ELSE LET player == At(b.players, idx)
             c == gc_find_card_in_hand(player, card_id) IN
    IF c < 0 THEN "GcCardNotInHand"
    ELSE LET card == At(player.hand, c) IN
    IF player.energy < card.cost THEN "GcNotEnoughEnergy"
    ELSE IF gc_needs_target(card)
    THEN LET t == gc_find_player(b, target_id) IN
         IF t < 0 THEN "GcInvalidTarget"
         ELSE IF ~gc_can_act(At(b.players, t)) THEN "GcInvalidTarget"
         ELSE "Ok"
    ELSE "Ok"

\* final_damage of the GcDamageResult; (defense as f32 * 0.3) as u32 truncates
gc_calculate_damage(attacker, target, card) ==
    LET base_damage == card.base_damage + attacker.attack
        defense_reduction == (target.defense * 3) \div 10
    IN SatSub(base_damage, defense_reduction)

\* GcPlayCardResult: res is "success" or "fail"; "panic" when an unwrap() of
\* None unwinds out of the call
gc_execute_play_card(b, player_id, card_id, target_id) ==
    IF gc_validate_play_card(b, player_id, card_id, target_id) # "Ok"
    THEN [b |-> b, res |-> "fail"]
    ELSE LET idx == gc_find_player(b, player_id)
             card == At(At(b.players, idx).hand,
                        gc_find_card_in_hand(At(b.players, idx), card_id))
             t == gc_find_player(b, target_id) IN
    IF t < 0 THEN [b |-> b, res |-> "panic"]
    ELSE LET final_damage == gc_calculate_damage(At(b.players, idx), At(b.players, t), card)
             hit == Stats_gc_take_damage(At(b.players, t), final_damage)
             target_killed == ~gc_is_alive(hit)
             struck == SetAt(b.players, t,
                             IF target_killed THEN [hit EXCEPT !.state = "Dead"] ELSE hit)
             player == At(struck, idx)
             spent == [player EXCEPT !.energy = SatSub(player.energy, card.cost)]
             used == IF gc_find_card_in_hand(spent, card_id) >= 0
                     THEN [gc_remove_card_from_hand(spent, card_id)
                              EXCEPT !.discard = Append(spent.discard, card)]
                     ELSE spent
         IN [b |-> gc_check_battle_end([b EXCEPT !.players = SetAt(struck, idx, used)]),
             res |-> "success"]

----------------------------------------------------------------------------
(* The server's end of turn (gs_state.rs).                                 *)

\* Result<GcBattleState, String>; the card dealt gets a fresh uuid as its id,
\* here the number of the turn it is dealt in
gs_end_turn(b, player_id) ==
    IF gc_current_player_id(b) # player_id THEN [b |-> b, res |-> "Err"]
    ELSE LET next == gc_next_turn(b)
             turn == next.turn IN
         IF next.current_player_index < Len(next.players)
         THEN LET next_player == At(next.players, next.current_player_index)
                  card == gc_new_attack("card_" \o ToString(turn), 1, 15 + (turn % 10)) IN
              [b |-> [next EXCEPT !.players = SetAt(next.players, next.current_player_index,
                          [next_player EXCEPT !.hand = Append(next_player.hand, card),
                                              !.energy = DEFAULT_ENERGY])],
               res |-> "Ok"]
         ELSE [b |-> next, res |-> "Ok"]

----------------------------------------------------------------------------
(* The browser build's battle (gw_battle.rs), with gc_draw_cards of        *)
(* gc_player.rs.                                                           *)

DRAW_PER_TURN == 1

\* gc_draw_cards: the player after drawing up to count cards from the end of
\* the deck, the discard pile moved into an empty deck
RECURSIVE gc_draw_cards(_, _)
gc_draw_cards(player, count) ==
    IF count = 0 \/ gc_is_hand_full(player) THEN player
    ELSE IF player.deck # <<>>
    THEN gc_draw_cards([player EXCEPT
                           !.hand = Append(player.hand, player.deck[Len(player.deck)]),
                           !.deck = SubSeq(player.deck, 1, Len(player.deck) - 1)],
                       count - 1)
    ELSE IF player.discard = <<>> THEN player
    ELSE gc_draw_cards([player EXCEPT
                           !.hand = Append(player.hand, player.discard[Len(player.discard)]),
                           !.deck = SubSeq(player.discard, 1, Len(player.discard) - 1),
                           !.discard = <<>>],
                       count - 1)

\* the deck GwBattle::start gives player i (0-based): five attack cards and
\* three defense cards
StartDeck(i) ==
    [j \in 1..5 |-> gc_new_attack("atk_" \o ToString(i) \o "_" \o ToString(j - 1), 1,
                                  10 + (j - 1) * 2)]
    \o [j \in 1..3 |-> gc_new_defense("def_" \o ToString(i) \o "_" \o ToString(j - 1), 1,
                                      8 + (j - 1) * 2)]

\* GwBattle::start on a battle of two players: the battle afterwards
GwBattle_start(b) ==
    [b EXCEPT !.phase = "Playing", !.current_player_index = 0, !.turn = 1,
              !.players = [k \in 1..Len(b.players) |->
                             gc_draw_cards([b.players[k] EXCEPT
                                               !.deck = StartDeck(k - 1),
                                               !.energy = 3, !.max_energy = 3,
                                               !.action_points = 5,
                                               !.max_action_points = 5],
                                           5)]]

\* GwBattle::end_turn after its gc_execute_turn_combat has left the battle
\* fought: the next player is seated, refilled and draws
GwBattle_end_turn_after(fought) ==
    IF gc_is_finished(fought) THEN [b |-> fought, res |-> "Ok"]
    ELSE LET next_index == (fought.current_player_index + 1) % Len(fought.players)
             turn == IF next_index = 0 THEN fought.turn + 1 ELSE fought.turn
             player == At(fought.players, next_index)
             started == gc_draw_cards(
                            gc_reset_action_points([player EXCEPT !.energy = player.max_energy]),
                            DRAW_PER_TURN)
         IN [b |-> [fought EXCEPT !.current_player_index = next_index,
                                  !.turn = turn,
                                  !.players = SetAt(fought.players, next_index, started)],
             res |-> "Ok"]

\* GwBattle::end_turn: Result<JsValue, JsValue>; the combat is worked out
\* once and the rest of the method runs on its outcome
GwBattle_end_turn(b, player_id) ==
    IF b.current_player_index < Len(b.players)
       /\ At(b.players, b.current_player_index).id # player_id
    THEN [b |-> b, res |-> "Err"]
    ELSE CHOOSE ended \in {GwBattle_end_turn_after(fought) :
                              fought \in {gc_execute_turn_combat(b, player_id).b}} : TRUE

----------------------------------------------------------------------------
(* Monster merging (gc_merge.rs).                                          *)

HexDigits ==
    <<"0", "1", "2", "3", "4", "5", "6", "7", "8", "9", "a", "b", "c", "d", "e", "f">>

\* format!("{:x}", n)
RECURSIVE LowerHex(_)
LowerHex(n) ==
    IF n < 16 THEN HexDigits[n + 1]
    ELSE LowerHex(n \div 16) \o HexDigits[(n % 16) + 1]

\* now is what SystemTime::now() reads when the call is made
uuid_simple(now) == LowerHex(now.secs) \o LowerHex(now.nanos)

gc_can_merge_pair(a, b) ==
    a.template_id = b.template_id /\ a.star = b.star /\ a.golden_level = b.golden_level

gc_can_merge_triple(a, b, c) == gc_can_merge_pair(a, b) /\ gc_can_merge_pair(b, c)

\* GcMergeResult::failed(); a location of -1 is None
MergeFailed ==
    [success |-> FALSE, merged_id |-> "", result_location |-> -1,
     from_star |-> 0, to_star |-> 0, from_golden |-> 0, to_golden |-> 0]

\* the GcMergeResult, with the id of the merged monster; a slot of -1 is None
gc_merge_monsters(monsters, now) ==
    IF ~gc_can_merge_triple(monsters[1], monsters[2], monsters[3]) THEN MergeFailed
    ELSE LET from_star == monsters[1].star
             from_golden == monsters[1].golden_level
             to == IF from_golden > 0 THEN <<3, from_golden + 1>>
                   ELSE IF from_star >= 3 THEN <<3, 1>>
                   ELSE <<from_star + 1, 0>>
             slots == {monsters[k].slot : k \in 1..3} \ {-1}
         IN [success |-> TRUE,
             merged_id |-> monsters[1].template_id \o "_merged_" \o uuid_simple(now),
             result_location |-> IF slots = {} THEN -1
                                 ELSE CHOOSE m \in slots : \A n \in slots : m <= n,
             from_star |-> from_star, to_star |-> to[1],
             from_golden |-> from_golden, to_golden |-> to[2]]

----------------------------------------------------------------------------
(* Bosses (gc_boss.rs).                                                    *)

\* a u32 argument that may be as large as u32::MAX is held in two 16-bit
\* halves; the fields of a boss are plain integers
U32(hi, lo) == [hi |-> hi, lo |-> lo]

ToU32(n) == U32(n \div 65536, n % 65536)

\* rage_per_damage: the f32 num/den
Ratio(num, den) == [num |-> num, den |-> den]

\* a GcBossSkill: cooldown and current_cooldown
Skill_gc_new(id, cooldown) == [id |-> id, cooldown |-> cooldown, current_cooldown |-> 0]

\* GcBossSkill::gc_new_rage_skill: no cooldown, and the rage it requires
gc_new_rage_skill(id, rage_required) ==
    [id |-> id, cooldown |-> 0, current_cooldown |-> 0, rage_required |-> rage_required]

gc_is_ready(skill) == skill.current_cooldown = 0

gc_use(skill) == [skill EXCEPT !.current_cooldown = skill.cooldown]

gc_tick(skill) ==
    IF skill.current_cooldown > 0
    THEN [skill EXCEPT !.current_cooldown = skill.current_cooldown - 1]
    ELSE skill

Boss_gc_new(boss_type, max_hp, base_attack, defense, max_rage, rage_per_damage) ==
    [boss_type |-> boss_type, max_hp |-> max_hp, current_hp |-> max_hp,
     base_attack |-> base_attack, current_attack |-> base_attack, defense |-> defense,
     max_rage |-> max_rage, current_rage |-> 0, rage_per_damage |-> rage_per_damage,
     skills |-> <<>>, rage_skill |-> gc_new_rage_skill("default_rage", 100),
     state |-> "Idle",
     revive_count |-> 0, max_revives |-> 0, attack_boost_per_revive |-> 0]

gc_add_skill(b, skill) == [b EXCEPT !.skills = Append(b.skills, skill)]

gc_set_rage_skill(b, skill) == [b EXCEPT !.rage_skill = skill]

gc_set_revive(b, max_revives, attack_boost_per_revive) ==
    [b EXCEPT !.max_revives = max_revives,
              !.attack_boost_per_revive = attack_boost_per_revive]

Boss_gc_is_alive(b) == b.current_hp > 0 /\ b.state # "Dead"

\* a revival check that does not count the revivals
gc_can_revive_uncounted(b) == b.boss_type = "Weekly"

gc_can_revive(b) == b.boss_type = "Weekly" /\ b.revive_count < b.max_revives

gc_is_rage_full(b) == b.current_rage >= b.max_rage

\* self.current_rage + amount in u32: the halves of the sum and whether it
\* passed u32::MAX
RageSum(b, amount) ==
    LET lo == (b.current_rage % 65536) + amount.lo
        hi == (b.current_rage \div 65536) + amount.hi + (lo \div 65536)
    IN [hi |-> hi % 65536, lo |-> lo % 65536, overflow |-> hi >= 65536]

\* an addition of rage that does not cap the sum
AddRageWith_uncapped(b, sum) ==
    LET raged == [b EXCEPT !.current_rage = sum.lo]
    IN IF raged.current_rage >= raged.max_rage /\ raged.state # "Enraged"
       THEN [raged EXCEPT !.state = "Enraged"]
       ELSE raged

\* gc_add_rage, given the value the addition produced
AddRageWith(b, sum) ==
    LET rage == IF sum.hi > 0 \/ sum.lo >= b.max_rage THEN b.max_rage ELSE sum.lo
        raged == [b EXCEPT !.current_rage = rage]
    IN IF raged.current_rage >= raged.max_rage /\ raged.state # "Enraged"
       THEN [raged EXCEPT !.state = "Enraged"]
       ELSE raged

\* the outcomes of gc_add_rage: when the addition passes u32::MAX a build
\* with overflow checks panics before it assigns anything and a build
\* without them goes on with the wrapped sum
gc_add_rage(b, amount) ==
    LET sum == RageSum(b, amount) IN
    IF sum.overflow
    THEN {[boss |-> b, panicked |-> TRUE],
          [boss |-> AddRageWith(b, sum), panicked |-> FALSE]}
    ELSE {[boss |-> AddRageWith(b, sum), panicked |-> FALSE]}

\* a consumption of rage that leaves the state alone
gc_consume_rage_keep_state(b) == [b EXCEPT !.current_rage = 0]

gc_consume_rage(b) ==
    LET spent == [b EXCEPT !.current_rage = 0] IN
    IF spent.state = "Enraged" THEN [spent EXCEPT !.state = "Idle"] ELSE spent

\* Option<&GcBossSkill>
NoSkill == [some |-> FALSE]

SomeSkill(skill) == [some |-> TRUE, skill |-> skill]

\* Iterator::max_by_key over a non-empty sequence of skills, keyed by
\* cooldown: of several maximal elements the last one is returned
MaxByCooldown(skills) ==
    LET i == CHOOSE k \in 1..Len(skills) :
                 /\ \A j \in 1..Len(skills) : skills[j].cooldown <= skills[k].cooldown
                 /\ \A j \in (k + 1)..Len(skills) : skills[j].cooldown < skills[k].cooldown
    IN skills[i]

gc_select_skill(b) ==
    IF gc_is_rage_full(b)
    THEN SomeSkill(b.rage_skill)
    ELSE LET ready == SelectSeq(b.skills, gc_is_ready) IN
         IF ready = <<>> THEN NoSkill ELSE SomeSkill(MaxByCooldown(ready))

gc_on_turn_end(b) == [b EXCEPT !.skills = [k \in 1..Len(b.skills) |-> gc_tick(b.skills[k])]]

\* a damage that defense can negate entirely
ActualDamage_negated(b, damage) == SatSub(damage, b.defense \div 2)

\* damage.saturating_sub(self.defense / 2).max(1)
ActualDamage(b, damage) == Max(SatSub(damage, b.defense \div 2), 1)

\* the power of two that is the distance between neighbouring f32 values
\* at n, for 2^24 <= n < 2^31
F32Ulp(n) ==
    LET ulp[k \in 0..6] ==
            IF k = 6 \/ n \div 16777216 < 2 ^ (k + 1) THEN 2 ^ (k + 1) ELSE ulp[k + 1]
    IN ulp[0]

\* n as f32: exact up to 2^24, and above it the nearest value with 24
\* significant bits, a tie going to the even one
AsF32(n) ==
    IF n < 16777216 THEN n
    ELSE LET ulp == F32Ulp(n)
             q == n \div ulp
             r == n % ulp
         IN IF 2 * r > ulp \/ (2 * r = ulp /\ q % 2 = 1) THEN (q + 1) * ulp ELSE q * ulp

\* (actual_damage as f32 * self.rage_per_damage) as u32: the product is
\* exact for the ratios of the model (1 over a power of two), and the
\* conversion to u32 drops the fraction
RageGain(b, actual_damage) ==
    (AsF32(actual_damage) * b.rage_per_damage.num) \div b.rage_per_damage.den

\* the attack after the revival that made revive_count what it is
RevivedAttack(b) ==
    LET boost == (b.base_attack * b.attack_boost_per_revive) \div 100
    IN b.base_attack + boost * b.revive_count

gc_revive_weekly(b, hp_before_kill) ==
    LET counted == [b EXCEPT !.revive_count = b.revive_count + 1]
        half == hp_before_kill \div 2
    IN [counted EXCEPT !.current_hp = IF half = 0 THEN 1 ELSE half,
                       !.current_attack = RevivedAttack(counted),
                       !.state = "Enraged",
                       !.current_rage = 0]

gc_revive(b) ==
    LET counted == [b EXCEPT !.revive_count = b.revive_count + 1]
    IN [counted EXCEPT !.current_hp = b.max_hp,
                       !.current_attack = RevivedAttack(counted),
                       !.state = "Enraged",
                       !.current_rage = 0]

\* a weekly damage that revives only a boss that can still revive
gc_take_damage_weekly_checked(b, damage, surviving_org_count) ==
    LET actual_damage == ActualDamage(b, damage)
        hp_before == b.current_hp
        hurt == [b EXCEPT !.current_hp = SatSub(b.current_hp, actual_damage)]
        rage_gain == RageGain(b, actual_damage)
    IN {IF r.panicked
        THEN [boss |-> hurt, panicked |-> TRUE,
              ret |-> [actual_damage |-> actual_damage, needs_revive |-> FALSE,
                       truly_dead |-> FALSE]]
        ELSE IF r.boss.current_hp = 0
        THEN IF surviving_org_count > 1 /\ gc_can_revive(r.boss)
             THEN [boss |-> gc_revive_weekly(r.boss, hp_before), panicked |-> FALSE,
                   ret |-> [actual_damage |-> actual_damage, needs_revive |-> TRUE,
                            truly_dead |-> FALSE]]
             ELSE [boss |-> [r.boss EXCEPT !.state = "Dead"], panicked |-> FALSE,
                   ret |-> [actual_damage |-> actual_damage, needs_revive |-> FALSE,
                            truly_dead |-> TRUE]]
        ELSE [boss |-> r.boss, panicked |-> FALSE,
              ret |-> [actual_damage |-> actual_damage, needs_revive |-> FALSE,
                       truly_dead |-> FALSE]]
        : r \in gc_add_rage(hurt, ToU32(rage_gain))}

\* the outcomes of gc_take_damage_weekly: the boss afterwards, the tuple
\* returned (actual damage, needs revive, truly dead), and whether the call
\* panicked in gc_add_rage, after the hp was lowered
gc_take_damage_weekly(b, damage, surviving_org_count) ==
    LET actual_damage == ActualDamage(b, damage)
        hp_before == b.current_hp
        hurt == [b EXCEPT !.current_hp = SatSub(b.current_hp, actual_damage)]
        rage_gain == RageGain(b, actual_damage)
    IN {IF r.panicked
        THEN [boss |-> hurt, panicked |-> TRUE,
              ret |-> [actual_damage |-> actual_damage, needs_revive |-> FALSE,
                       truly_dead |-> FALSE]]
        ELSE IF r.boss.current_hp = 0
        THEN IF surviving_org_count > 1
             THEN [boss |-> gc_revive_weekly(r.boss, hp_before), panicked |-> FALSE,
                   ret |-> [actual_damage |-> actual_damage, needs_revive |-> TRUE,
                            truly_dead |-> FALSE]]
             ELSE [boss |-> [r.boss EXCEPT !.state = "Dead"], panicked |-> FALSE,
                   ret |-> [actual_damage |-> actual_damage, needs_revive |-> FALSE,
                            truly_dead |-> TRUE]]
        ELSE [boss |-> r.boss, panicked |-> FALSE,
              ret |-> [actual_damage |-> actual_damage, needs_revive |-> FALSE,
                       truly_dead |-> FALSE]]
        : r \in gc_add_rage(hurt, ToU32(rage_gain))}

\* the outcomes of gc_take_damage: the boss afterwards and the tuple returned
\* (actual damage, died)
Boss_gc_take_damage(b, damage) ==
    LET actual_damage == ActualDamage(b, damage)
        hurt == [b EXCEPT !.current_hp = SatSub(b.current_hp, actual_damage)]
        rage_gain == RageGain(b, actual_damage)
    IN {IF r.panicked
        THEN [boss |-> hurt, panicked |-> TRUE,
              ret |-> [actual_damage |-> actual_damage, died |-> FALSE]]
        ELSE LET died == r.boss.current_hp = 0
                 after == IF ~died THEN r.boss
                          ELSE IF gc_can_revive(r.boss) THEN gc_revive(r.boss)
                          ELSE [r.boss EXCEPT !.state = "Dead"]
             IN [boss |-> after, panicked |-> FALSE,
                 ret |-> [actual_damage |-> actual_damage,
                          died |-> died /\ ~Boss_gc_is_alive(after)]]
        : r \in gc_add_rage(hurt, ToU32(rage_gain))}

----------------------------------------------------------------------------
(* u32 and i64 values beyond 2^31, as a high part and 16 low bits.         *)

U32Max == U32(65535, 65535)

WLess(a, b) == a.hi < b.hi \/ (a.hi = b.hi /\ a.lo < b.lo)

WLeq(a, b) == a = b \/ WLess(a, b)

WMax(a, b) == IF WLess(a, b) THEN b ELSE a

\* a - b, for a >= b
WSub(a, b) ==
    IF a.lo >= b.lo
    THEN [hi |-> a.hi - b.hi, lo |-> a.lo - b.lo]
    ELSE [hi |-> a.hi - b.hi - 1, lo |-> a.lo + 65536 - b.lo]

\* a * k, for a small multiplier
WMul(a, k) ==
    LET lo == a.lo * k
    IN [hi |-> a.hi * k + (lo \div 65536), lo |-> lo % 65536]

\* a / d, for a small divisor, the fraction dropped
WDiv(a, d) == [hi |-> a.hi \div d, lo |-> (((a.hi % d) * 65536) + a.lo) \div d]

\* an i64 as u32: the low 32 bits
WAsU32(a) == [hi |-> a.hi % 65536, lo |-> a.lo]

\* the number of low bits an f32 cannot hold of a value of 2^24 or more
\* (and below 2^40)
WDroppedBits(a) ==
    LET bits[k \in 1..16] == IF k = 16 \/ a.hi < 256 * (2 ^ k) THEN k ELSE bits[k + 1]
    IN bits[1]

\* the nearest value with 24 significant bits, a tie going to the even one:
\* what an f32 holds of the value
WRoundF32(a) ==
    IF a.hi < 256 THEN a
    ELSE LET ulp == 2 ^ WDroppedBits(a)
             per == 65536 \div ulp
             q == (a.hi * per) + (a.lo \div ulp)
             r == a.lo % ulp
             up == 2 * r > ulp \/ (2 * r = ulp /\ q % 2 = 1)
             rounded == IF up THEN q + 1 ELSE q
         IN [hi |-> rounded \div per, lo |-> (rounded % per) * ulp]

\* an f32 holding a whole number as u32: values past u32::MAX become
\* u32::MAX
WSaturateU32(a) == IF a.hi >= 65536 THEN U32Max ELSE a

----------------------------------------------------------------------------
(* Terrain and monsters (gc_battle_terrain.rs, gc_monster.rs).             *)

\* GcTerrainModifier: the two percentages combat uses
Modifier(atk_percent, def_percent) == [atk_percent |-> atk_percent, def_percent |-> def_percent]

gc_get_terrain_modifier(terrain, attribute) ==
    CASE terrain = "Plain" -> Modifier(0, 0)
      [] terrain = "Volcano" /\ attribute = "Fire" -> Modifier(20, 0)
      [] terrain = "Volcano" /\ attribute = "Water" -> Modifier(-10, 0)
      [] terrain = "Glacier" /\ attribute = "Water" -> Modifier(0, 20)
      [] terrain = "Glacier" /\ attribute = "Fire" -> Modifier(0, -10)
      [] terrain = "Ocean" /\ attribute = "Water" -> Modifier(10, 10)
      [] terrain = "Ocean" /\ attribute = "Fire" -> Modifier(-20, 0)
      [] terrain = "Shadow" /\ attribute = "Dark" -> Modifier(30, 0)
      [] terrain = "Holy" /\ attribute = "Light" -> Modifier(0, 30)
      [] terrain = "Holy" /\ attribute = "Dark" -> Modifier(-20, 0)
      [] terrain = "Mountain" /\ attribute = "Earth" -> Modifier(0, 25)
      [] OTHER -> Modifier(0, 0)

\* (base as i64 * (100 + percent) / 100).max(1) as u32
apply_atk(modifier, base_atk) ==
    WAsU32(WMax(WDiv(WMul(base_atk, 100 + modifier.atk_percent), 100), ToU32(1)))

\* (base as i64 * (100 + percent) / 100).max(0) as u32
apply_def(modifier, base_def) ==
    WAsU32(WDiv(WMul(base_def, 100 + modifier.def_percent), 100))

\* GcTerrainWeight
Weight(terrain, weight) == [terrain |-> terrain, weight |-> weight]

gc_get_base_terrain_weights(world_terrain) ==
    CASE world_terrain = "Grassland" ->
           <<Weight("Plain", 60), Weight("Forest", 30), Weight("Mountain", 10)>>
      [] world_terrain = "Desert" ->
           <<Weight("Plain", 30), Weight("Volcano", 50), Weight("Mountain", 20)>>
      [] world_terrain = "Snowfield" ->
           <<Weight("Glacier", 60), Weight("Plain", 20), Weight("Mountain", 20)>>
      [] world_terrain = "Waterside" ->
           <<Weight("Ocean", 50), Weight("Swamp", 30), Weight("Plain", 20)>>
      [] world_terrain = "Highland" ->
           <<Weight("Mountain", 60), Weight("Plain", 20), Weight("Volcano", 20)>>
      [] world_terrain = "Woodland" ->
           <<Weight("Forest", 70), Weight("Swamp", 20), Weight("Plain", 10)>>
      [] world_terrain = "Cave" ->
           <<Weight("Shadow", 50), Weight("Mountain", 30), Weight("Swamp", 20)>>
      [] world_terrain = "Ruins" ->
           <<Weight("Shadow", 30), Weight("Holy", 30), Weight("Plain", 40)>>

\* the weights afterwards: the boost goes to the first entry of the boosted
\* terrain, or to a new entry at the end
gc_apply_enemy_modifier(weights, enemy_type) ==
    IF enemy_type = "Normal" THEN weights
    ELSE LET boost == CASE enemy_type = "FireType" -> Weight("Volcano", 30)
                        [] enemy_type = "WaterType" -> Weight("Ocean", 30)
                        [] enemy_type = "DarkType" -> Weight("Shadow", 40)
                        [] enemy_type = "LightType" -> Weight("Holy", 40)
                        [] enemy_type = "Boss" -> Weight("Shadow", 20)
             found == {k \in 1..Len(weights) : weights[k].terrain = boost.terrain}
         IN IF found = {} THEN Append(weights, boost)
            ELSE LET first == CHOOSE k \in found : \A j \in found : k <= j
                 IN [weights EXCEPT ![first].weight = @ + boost.weight]

\* weights.iter().map(|w| w.weight).sum()
RECURSIVE WeightSum(_)
WeightSum(weights) ==
    IF weights = <<>> THEN 0 ELSE Head(weights).weight + WeightSum(Tail(weights))

\* the loop of gc_select_terrain from entry i on (0-based), with the weight
\* accumulated so far
RECURSIVE SelectTerrainFrom(_, _, _, _)
SelectTerrainFrom(weights, threshold, i, accumulated) ==
    IF i >= Len(weights) THEN "Plain"
    ELSE IF threshold < accumulated + At(weights, i).weight
         THEN At(weights, i).terrain
         ELSE SelectTerrainFrom(weights, threshold, i + 1, accumulated + At(weights, i).weight)

\* gc_select_terrain taking an entry as soon as the threshold reaches its
\* cumulative weight
RECURSIVE SelectFrom(_, _, _, _)
SelectFrom(weights, threshold, i, accumulated) ==
    IF i >= Len(weights) THEN "Plain"
    ELSE IF threshold <= accumulated + At(weights, i).weight
         THEN At(weights, i).terrain
         ELSE SelectFrom(weights, threshold, i + 1, accumulated + At(weights, i).weight)

gc_select_terrain_inclusive(weights, random_value) ==
    LET total == WeightSum(weights)
    IN IF total = 0 THEN "Plain"
       ELSE SelectFrom(weights, random_value % total, 0, 0)

gc_select_terrain(weights, random_value) ==
    LET total == WeightSum(weights)
    IN IF total = 0 THEN "Plain"
       ELSE SelectTerrainFrom(weights, random_value % total, 0, 0)

\* the terrains of the player's side and of the enemy's side
gc_generate_battle_terrain(world_terrain, enemy_type, random_seed) ==
    LET weights == gc_apply_enemy_modifier(gc_get_base_terrain_weights(world_terrain), enemy_type)
        player_random == random_seed % 100
        enemy_random == (random_seed \div 100) % 100
    IN [player_terrain |-> gc_select_terrain(weights, player_random),
        enemy_terrain |-> gc_select_terrain(weights, enemy_random)]

\* GcMonster::new: one star, not golden, in no slot (slot -1)
Monster_new(id, attr, atk, def, hp) ==
    [id |-> id, template_id |-> id, attribute |-> attr, base_atk |-> atk,
     base_def |-> def, current_hp |-> hp, max_hp |-> hp, slot |-> -1,
     can_attack |-> FALSE, star |-> 1, golden_level |-> 0]

\* twice star_multiplier(), which is a whole number of halves
star_multiplier_halves(m) ==
    IF m.golden_level > 0 THEN 6 + 3 * m.golden_level ELSE 2 * m.star

\* (stat as f32 * self.star_multiplier()) as u32: the stat and the product
\* are rounded to f32, the fraction is dropped and the result stops at
\* u32::MAX
StarScaled(m, stat) ==
    WSaturateU32(WDiv(WRoundF32(WMul(WRoundF32(stat), star_multiplier_halves(m))), 2))

effective_max_hp(m) == StarScaled(m, m.max_hp)

effective_atk(m, terrain) ==
    apply_atk(gc_get_terrain_modifier(terrain, m.attribute), StarScaled(m, m.base_atk))

effective_def(m, terrain) ==
    apply_def(gc_get_terrain_modifier(terrain, m.attribute), StarScaled(m, m.base_def))

\* GcMonster::new_with_star
new_with_star(id, attr, atk, def, hp, star, golden_level) ==
    LET made == [Monster_new(id, attr, atk, def, hp) EXCEPT
                    !.star = Max(1, Min(star, 3)), !.golden_level = golden_level]
    IN [made EXCEPT !.current_hp = effective_max_hp(made)]

\* the monster gc_merge_monsters creates from three that can merge: one step
\* up the progression 1 star, 2 stars, 3 stars, golden 1, golden 2, ...
merged_monster(monsters, now) ==
    LET base == monsters[1]
        to == IF base.golden_level > 0 THEN <<3, base.golden_level + 1>>
              ELSE IF base.star >= 3 THEN <<3, 1>>
              ELSE <<base.star + 1, 0>>
        slots == {monsters[k].slot : k \in 1..3} \ {-1}
        merged == new_with_star(base.template_id \o "_merged_" \o uuid_simple(now),
                                base.attribute, base.base_atk, base.base_def,
                                base.max_hp, to[1], to[2])
    IN [merged EXCEPT !.template_id = base.template_id,
                      !.slot = IF slots = {} THEN -1
                               ELSE CHOOSE m \in slots : \A n \in slots : m <= n,
                      !.can_attack = FALSE]

\* GcMonster::take_damage: the monster afterwards; it died when no hp is left
Monster_take_damage(m, damage) ==
    IF WLeq(m.current_hp, damage)
    THEN [m EXCEPT !.current_hp = ToU32(0)]
    ELSE [m EXCEPT !.current_hp = WSub(m.current_hp, damage)]

is_alive(m) == WLess(ToU32(0), m.current_hp)

----------------------------------------------------------------------------
(* Monster combat, the arena and the graveyard (gc_monster.rs,             *)
(* gc_combat.rs, gc_battlefield.rs, gc_graveyard.rs).                      *)

\* the [Option<GcMonster>; 5] of each side of the arena
ArenaSlotCount == 5

\* an empty slot of the arena: Option::None
NoMonster == [id |-> "none"]

gc_calculate_battle_damage(attacker, defender, attacker_terrain, defender_terrain) ==
    LET atk == effective_atk(attacker, attacker_terrain)
        def == effective_def(defender, defender_terrain)
        damage == IF WLess(def, atk) THEN WSub(atk, def) ELSE ToU32(0)
        counter_damage == IF WLess(atk, def) THEN WSub(def, atk) ELSE ToU32(0)
    IN [attacker_id |-> attacker.id, defender_id |-> defender.id,
        attacker_atk |-> atk, defender_def |-> def,
        damage |-> damage,
        defender_destroyed |-> WLeq(defender.current_hp, damage),
        counter_damage |-> counter_damage,
        attacker_destroyed |-> WLeq(attacker.current_hp, counter_damage)]

\* gc_execute_monster_battle: both monsters afterwards and the result
gc_execute_monster_battle(attacker, defender, attacker_terrain, defender_terrain) ==
    LET result == gc_calculate_battle_damage(attacker, defender,
                                             attacker_terrain, defender_terrain)
    IN [attacker |-> IF WLess(ToU32(0), result.counter_damage)
                     THEN Monster_take_damage(attacker, result.counter_damage)
                     ELSE attacker,
        defender |-> IF WLess(ToU32(0), result.damage)
                     THEN Monster_take_damage(defender, result.damage)
                     ELSE defender,
        result |-> result]

\* gc_calculate_attack; defender is NoMonster and defender_slot -1 for a
\* direct attack
gc_calculate_attack(attacker, defender, attacker_slot, defender_slot, attacker_terrain, defender_terrain) ==
    LET atk == effective_atk(attacker, attacker_terrain) IN
    IF defender # NoMonster
    THEN LET def == effective_def(defender, defender_terrain)
             damage == IF WLess(def, atk) THEN WSub(atk, def)
                       ELSE IF WLess(atk, def) THEN WSub(def, atk)
                       ELSE ToU32(0)
             attacker_destroyed == ~WLess(def, atk)
             target_destroyed == ~WLess(atk, def)
         IN [attacker_slot |-> attacker_slot, target_slot |-> defender_slot,
             damage |-> damage,
             target_destroyed |-> target_destroyed,
             attacker_destroyed |-> attacker_destroyed,
             player_damage |-> IF target_destroyed THEN damage ELSE ToU32(0)]
    ELSE [attacker_slot |-> attacker_slot, target_slot |-> -1,
          damage |-> atk,
          target_destroyed |-> FALSE,
          attacker_destroyed |-> FALSE,
          player_damage |-> atk]

\* the loop of gc_auto_select_target and of get_weakest_enemy_slot, from
\* slot i on, with the minimum and the target found so far (-1 is None)
RECURSIVE WeakestFrom(_, _, _, _, _)
WeakestFrom(monsters, terrain, i, min_atk, target) ==
    IF i >= Len(monsters) THEN target
    ELSE LET m == At(monsters, i) IN
         IF m # NoMonster /\ WLess(effective_atk(m, terrain), min_atk)
         THEN WeakestFrom(monsters, terrain, i + 1, effective_atk(m, terrain), i)
         ELSE WeakestFrom(monsters, terrain, i + 1, min_atk, target)

gc_auto_select_target(enemy_monsters, enemy_terrain) ==
    WeakestFrom(enemy_monsters, enemy_terrain, 0, U32Max, -1)

get_weakest_enemy_slot(a) ==
    WeakestFrom(a.enemy_monsters, a.enemy_terrain, 0, U32Max, -1)

\* GcBattleArena::new
Arena_new(player_terrain, enemy_terrain) ==
    [player_terrain |-> player_terrain, enemy_terrain |-> enemy_terrain,
     player_monsters |-> [k \in 1..ArenaSlotCount |-> NoMonster],
     enemy_monsters |-> [k \in 1..ArenaSlotCount |-> NoMonster],
     normal_summon_used |-> FALSE]

\* summon_player_monster: the arena afterwards and Ok or Err
summon_player_monster(a, slot, monster) ==
    IF slot >= 5 THEN [arena |-> a, res |-> "Err"]
    ELSE IF At(a.player_monsters, slot) # NoMonster THEN [arena |-> a, res |-> "Err"]
    ELSE [arena |-> [a EXCEPT !.player_monsters =
                        SetAt(a.player_monsters, slot,
                              [monster EXCEPT !.slot = slot, !.can_attack = FALSE])],
          res |-> "Ok"]

\* player_occupied_slots: for each of the five slots, whether a monster
\* stands in it
player_occupied_slots(a) == [k \in 1..ArenaSlotCount |-> a.player_monsters[k] # NoMonster]

\* GcBattleArena::on_turn_start: the flag of the normal summon is cleared and
\* every monster of the player side may attack
Arena_on_turn_start(a) ==
    [a EXCEPT !.normal_summon_used = FALSE,
              !.player_monsters = [k \in 1..ArenaSlotCount |->
                  IF a.player_monsters[k] = NoMonster THEN NoMonster
                  ELSE [a.player_monsters[k] EXCEPT !.can_attack = TRUE]]]

\* gc_required_tributes: the number of tributes a level (u8) asks for
gc_required_tributes(level) == IF level <= 4 THEN 0 ELSE IF level <= 6 THEN 1 ELSE 2

\* gc_validate_normal_summon: Ok, or the error returned
gc_validate_normal_summon(level, normal_summon_used) ==
    IF normal_summon_used THEN "NormalSummonUsed"
    ELSE IF level > 4 THEN "LevelTooHigh"
    ELSE "Ok"

\* gc_validate_tribute_summon: Ok, or the error returned; sacrifice_slots is
\* a sequence of u8 and occupied_slots the five flags of the board
gc_validate_tribute_summon(level, sacrifice_slots, occupied_slots) ==
    IF Len(sacrifice_slots) < gc_required_tributes(level) THEN "InsufficientTributes"
    ELSE IF \E k \in 1..Len(sacrifice_slots) :
                \/ sacrifice_slots[k] >= 5
                \/ ~occupied_slots[sacrifice_slots[k] + 1]
         THEN "InvalidTributeSlot"
    ELSE "Ok"

\* recall_to_bench: the arena and the bench afterwards, and the monster
\* returned
recall_to_bench(a, b, slot) ==
    IF slot >= 5 \/ At(a.player_monsters, slot) = NoMonster
    THEN [arena |-> a, bench |-> b, ret |-> NoMonster]
    ELSE LET taken == At(a.player_monsters, slot)
             monster == [taken EXCEPT !.slot = -1, !.can_attack = FALSE,
                                      !.current_hp = effective_max_hp(taken)]
         IN [arena |-> [a EXCEPT !.player_monsters = SetAt(a.player_monsters, slot, NoMonster)],
             bench |-> Append(b, monster),
             ret |-> monster]

\* GcGraveyard::add
Graveyard_add(g, monster) == Append(g, [monster EXCEPT !.slot = -1, !.can_attack = FALSE])

\* gc_process_deaths over the slots from i on: the board and the graveyard
\* afterwards and the ids of the monsters that left
RECURSIVE ProcessDeathsFrom(_, _, _, _)
ProcessDeathsFrom(board, g, events, i) ==
    IF i >= Len(board) THEN [board |-> board, graveyard |-> g, events |-> events]
    ELSE LET m == At(board, i) IN
         IF m # NoMonster /\ ~is_alive(m)
         THEN ProcessDeathsFrom(SetAt(board, i, NoMonster), Graveyard_add(g, m),
                                Append(events, m.id), i + 1)
         ELSE ProcessDeathsFrom(board, g, events, i + 1)

gc_process_deaths(board, g) == ProcessDeathsFrom(board, g, <<>>, 0)

----------------------------------------------------------------------------
(* The turn state (gc_turn.rs).                                            *)

\* a phase order without the second main phase
Phase_next_no_main2(phase) ==
    CASE phase = "Draw" -> "Main1"
      [] phase = "Main1" -> "Battle"
      [] phase = "Battle" -> "End"
      [] phase = "Main2" -> "End"
      [] phase = "End" -> "Draw"

\* GcTurnPhase::next
Phase_next(phase) ==
    CASE phase = "Draw" -> "Main1"
      [] phase = "Main1" -> "Battle"
      [] phase = "Battle" -> "Main2"
      [] phase = "Main2" -> "End"
      [] phase = "End" -> "Draw"

Phase_can_attack(phase) == phase = "Battle"

\* GcTurnState::default
TurnState_default ==
    [turn_number |-> 1, phase |-> "Draw", is_player_turn |-> TRUE,
     normal_summon_used |-> FALSE, attacked_slots |-> <<>>]

next_phase(t) ==
    LET advanced == [t EXCEPT !.phase = Phase_next(t.phase)] IN
    IF advanced.phase = "Draw"
    THEN [advanced EXCEPT !.turn_number = t.turn_number + 1,
                          !.is_player_turn = ~t.is_player_turn,
                          !.normal_summon_used = FALSE,
                          !.attacked_slots = <<>>]
    ELSE advanced

skip_battle(t) == IF t.phase = "Main1" THEN [t EXCEPT !.phase = "Main2"] ELSE t

end_turn(t) == next_phase([t EXCEPT !.phase = "End"])

\* Vec::contains
Contains(v, x) == \E k \in 1..Len(v) : v[k] = x

\* a marking that records every attack
mark_attacked_every_time(t, slot) ==
    [t EXCEPT !.attacked_slots = Append(t.attacked_slots, slot)]

mark_attacked(t, slot) ==
    IF ~Contains(t.attacked_slots, slot)
    THEN [t EXCEPT !.attacked_slots = Append(t.attacked_slots, slot)]
    ELSE t

can_monster_attack(t, slot) ==
    Phase_can_attack(t.phase) /\ ~Contains(t.attacked_slots, slot)

\* deploy_from_bench: the arena and the bench afterwards and Ok or Err
deploy_from_bench(a, b, monster_id, slot) ==
    IF slot >= 5 THEN [arena |-> a, bench |-> b, res |-> "Err"]
    ELSE IF At(a.player_monsters, slot) # NoMonster THEN [arena |-> a, bench |-> b, res |-> "Err"]
    ELSE LET idx == Position(b, monster_id) IN
         IF idx = -1 THEN [arena |-> a, bench |-> b, res |-> "Err"]
         ELSE [arena |-> [a EXCEPT !.player_monsters =
                             SetAt(a.player_monsters, slot,
                                   [At(b, idx) EXCEPT !.slot = slot, !.can_attack = FALSE])],
               bench |-> RemoveAt(b, idx),
               res |-> "Ok"]

----------------------------------------------------------------------------
(* SpecField: two battlefields under deploy, remove, turn start and sweep. *)

\* slot_count of the GcBattlefieldConfig both battlefields are built with
FieldSlots == 2

\* the cards deployed on the attacking side, which a sweep never damages:
\* one that deals damage and one that deals none
FieldCards == {gc_new_attack("a2", 1, 2), gc_new_defense("d0", 1, 0)}

\* the cards deployed on the opposing side: destroyed by one hit (a2, d0) or
\* by two (d3); d0 is the Defense card of defense 0
EnemyCards ==
    {gc_new_attack("a2", 1, 2), gc_new_defense("d3", 1, 3), gc_new_defense("d0", 1, 0)}

\* slot indices callers pass, the first out-of-range one included
FieldIndices == 0..FieldSlots

\* swept: a sweep has run and no gc_on_turn_start has run since (history)
NoSweep == [op |-> "new", res |-> "Ok", result |-> EmptyCombatResult, swept |-> FALSE]

\* the variables of a specification that does not use them
IdleField == bf = <<>> /\ enemy_bf = <<>> /\ sweep = [op |-> "idle"]

IdleBattle == battle = [phase |-> "idle"] /\ last = [op |-> "idle"]

IdleReplay == replay = <<>>

IdleBoss == boss = [state |-> "idle"] /\ bossLast = [op |-> "idle"]

IdleServer == server = [rooms |-> <<>>] /\ sockets = <<>>

IdleArena ==
    /\ arena = [player_monsters |-> <<>>]
    /\ bench = <<>>
    /\ graveyard = <<>>
    /\ turn_state = [phase |-> "idle"]
    /\ arenaLast = [op |-> "idle"]

InitField ==
    /\ bf = Bf_gc_new(FieldSlots)
    /\ enemy_bf = Bf_gc_new(FieldSlots)
    /\ sweep = NoSweep
    /\ IdleBattle
    /\ IdleServer
    /\ IdleReplay
    /\ IdleBoss
    /\ IdleArena

FieldDeploy ==
    \E i \in FieldIndices, c \in FieldCards :
        LET r == gc_deploy_to_slot(bf, i, c) IN
        /\ bf' = r.slots
        /\ sweep' = [op |-> "gc_deploy_to_slot", res |-> r.res,
                     result |-> EmptyCombatResult, swept |-> sweep.swept]
        /\ UNCHANGED enemy_bf

FieldEnemyDeploy ==
    \E i \in FieldIndices, c \in EnemyCards :
        LET r == gc_deploy_to_slot(enemy_bf, i, c) IN
        /\ enemy_bf' = r.slots
        /\ sweep' = [op |-> "enemy_gc_deploy_to_slot", res |-> r.res,
                     result |-> EmptyCombatResult, swept |-> sweep.swept]
        /\ UNCHANGED bf

FieldRemove ==
    \E i \in FieldIndices :
        /\ bf' = gc_remove_from_slot(bf, i)
        /\ sweep' = [op |-> "gc_remove_from_slot", res |-> "Ok",
                     result |-> EmptyCombatResult, swept |-> sweep.swept]
        /\ UNCHANGED enemy_bf

FieldTurnStart ==
    /\ bf' = Bf_gc_on_turn_start(bf)
    /\ sweep' = [op |-> "gc_on_turn_start", res |-> "Ok",
                 result |-> EmptyCombatResult, swept |-> FALSE]
    /\ UNCHANGED enemy_bf

FieldSweep ==
    LET r == gc_attack_battlefield(bf, enemy_bf) IN
    /\ bf' = r.self
    /\ enemy_bf' = r.enemy
    /\ sweep' = [op |-> "gc_attack_battlefield", res |-> "Ok", result |-> r.result,
                 swept |-> TRUE]

NextField ==
    /\ \/ FieldDeploy
       \/ FieldEnemyDeploy
       \/ FieldRemove
       \/ FieldTurnStart
       \/ FieldSweep
    /\ UNCHANGED battleVars
    /\ UNCHANGED serverVars
    /\ UNCHANGED replayVars
    /\ UNCHANGED bossVars
    /\ UNCHANGED arenaVars

SpecField == InitField /\ [][NextField]_vars

----------------------------------------------------------------------------
(* SpecBattle: a battle of two or three players driven through the core's  *)
(* entry points, by any caller.                                            *)

\* the turn number the model stops at: no call raises the counter past it
MaxTurn == 2

\* the GcCardPoolConfig handed to gc_new_with_config: the default costs, and
\* a pool of one card, which is on display
BattlePoolConfig ==
    [display_size |-> 1, acquire_cost |-> 1, refresh_cost |-> 1, initial_pool_size |-> 1]

\* a player as the callers of gc_new build it, with one action point a turn
BattlePlayer(id, hand) ==
    [Player_gc_new(id) EXCEPT !.hand = hand, !.action_points = 1, !.max_action_points = 1]

\* the players handed to gc_new. Two players: p1 holds an attack card that
\* kills and a Defense card, p2 an attack card that kills. Three players: p1
\* holds the attack card, p2 and p3 nothing.
BattlePlayers ==
    LET k1 == gc_new_attack("k1", 1, 100)
        k2 == gc_new_attack("k2", 1, 100)
        d1 == gc_new_defense("d1", 1, 8)
    IN {<<BattlePlayer("p1", <<k1, d1>>), BattlePlayer("p2", <<k2>>)>>,
        <<BattlePlayer("p1", <<k1>>), BattlePlayer("p2", <<>>), BattlePlayer("p3", <<>>)>>}

\* GcBattleState::gc_new_with_config, one battle per outcome of the pool's shuffle
Battle_gc_new_with_config(players, pool_config) ==
    {[turn |-> 1, current_player_index |-> 0, players |-> players, phase |-> "Starting",
      winner_id |-> NoPlayer, card_pool |-> pool]
     : pool \in gc_initialize(Pool_gc_new(pool_config))}

\* the ids callers pass: every player of the battle, and one that names nobody
CallerIds == {battle.players[k].id : k \in 1..Len(battle.players)} \cup {"nobody"}

\* the card ids a caller passes for a card of its hand: the cards in its hand,
\* and one that names no card
HandIds(player_id) ==
    UNION {{battle.players[k].hand[j].id : j \in 1..Len(battle.players[k].hand)}
               : k \in {n \in 1..Len(battle.players) : battle.players[n].id = player_id}}
    \cup {"nocard"}

\* the card ids a caller passes for a card of the pool: the cards on display,
\* and one that names no card
DisplayIds ==
    {battle.card_pool.display[j].id : j \in 1..Len(battle.card_pool.display)} \cup {"nocard"}

\* the slot indices callers pass: two lanes and the first invalid index
SlotIndices == {0, 1, DEFAULT_SLOT_COUNT}

\* whether a Result or Option is a rejection
Rejected(res) == res \notin {"Ok", "Some", "success", "panic"}

\* the record of a call: the entry point, whether the caller named the current
\* player, and the outcome ("Ok", "Some", "success", "panic", or "Err")
Called(op, player_id, res) ==
    [op |-> op, current |-> (player_id = gc_current_player_id(battle)),
     res |-> IF Rejected(res) THEN "Err" ELSE res]

\* gs_start_game and GwBattle::start set the phase to Playing right after gc_new
InitBattle ==
    /\ \E players \in BattlePlayers :
         \E b \in Battle_gc_new_with_config(players, BattlePoolConfig) :
            battle = [b EXCEPT !.phase = "Playing"]
    /\ last = Called("gc_new", NoPlayer, "Ok")
    /\ IdleField
    /\ IdleServer
    /\ IdleReplay
    /\ IdleBoss
    /\ IdleArena

BattleDeploy ==
    \E player_id \in CallerIds : \E card_id \in HandIds(player_id), slot_index \in SlotIndices :
        LET r == gc_deploy_card(battle, player_id, card_id, slot_index) IN
        /\ battle' = r.b
        /\ last' = Called("gc_deploy_card", player_id, r.res)

BattleAcquire ==
    \E player_id \in CallerIds, card_id \in DisplayIds :
        \E r \in gc_acquire_card_from_pool(battle, player_id, card_id) :
            /\ battle' = r.b
            /\ last' = Called("gc_acquire_card_from_pool", player_id, r.res)

BattleRefresh ==
    \E player_id \in CallerIds :
        \E r \in gc_refresh_pool(battle, player_id) :
            /\ battle' = r.b
            /\ last' = Called("gc_refresh_pool", player_id, r.res)

BattlePlayCard ==
    \E player_id \in CallerIds : \E card_id \in HandIds(player_id), target_id \in CallerIds :
        LET r == gc_execute_play_card(battle, player_id, card_id, target_id) IN
        /\ battle' = r.b
        /\ last' = Called("gc_execute_play_card", player_id, r.res)

BattleTurnCombat ==
    \E player_id \in CallerIds :
        LET r == gc_execute_turn_combat(battle, player_id) IN
        /\ battle' = r.b
        /\ last' = Called("gc_execute_turn_combat", player_id, r.res)

BattleNextTurn ==
    /\ gc_next_turn(battle).turn <= MaxTurn
    /\ battle' = gc_next_turn(battle)
    /\ last' = Called("gc_next_turn", NoPlayer, "Ok")

NextBattle ==
    /\ \/ BattleDeploy
       \/ BattleAcquire
       \/ BattleRefresh
       \/ BattlePlayCard
       \/ BattleTurnCombat
       \/ BattleNextTurn
    /\ UNCHANGED fieldVars
    /\ UNCHANGED serverVars
    /\ UNCHANGED replayVars
    /\ UNCHANGED bossVars
    /\ UNCHANGED arenaVars

SpecBattle == InitBattle /\ [][NextBattle]_vars

----------------------------------------------------------------------------
(* SpecServerBattle: the battle of SpecBattle as the game server runs it,  *)
(* with its end of turn beside the core's entry points.                    *)

\* a call that deals a card is taken while it starts a turn up to MaxTurn
BattleEndTurn ==
    \E player_id \in CallerIds :
        LET r == gs_end_turn(battle, player_id) IN
        /\ r.res = "Err" \/ (r.b.turn > battle.turn /\ r.b.turn <= MaxTurn)
        /\ battle' = r.b
        /\ last' = Called("gs_end_turn", player_id, r.res)

NextServerBattle ==
    \/ NextBattle
    \/ /\ BattleEndTurn
       /\ UNCHANGED fieldVars
       /\ UNCHANGED serverVars
       /\ UNCHANGED replayVars
       /\ UNCHANGED bossVars
       /\ UNCHANGED arenaVars

SpecServerBattle == InitBattle /\ [][NextServerBattle]_vars

----------------------------------------------------------------------------
(* Claims about the attack sweep and the slots (checked under SpecField).  *)

Eligible(slot) == slot.card # NoCard /\ slot.can_attack

\* the base damage of the eligible attackers of self[i..] whose lane is empty
RECURSIVE LaneDamageFrom(_, _, _)
LaneDamageFrom(i, self, enemy) ==
    IF i >= Len(self) THEN 0
    ELSE (IF Eligible(At(self, i)) /\ At(enemy, i).card = NoCard
          THEN At(self, i).card.base_damage ELSE 0)
         + LaneDamageFrom(i + 1, self, enemy)

\* C8: in a sweep every eligible slot i attacks the opposing slot i and no
\* other: an occupied opposing slot i is the only slot that attack damages,
\* an empty one sends the attacker's full base damage to the opposing player
\* whatever stands in the other opposing slots, slots facing no eligible
\* attacker are untouched, and the attacks are recorded in ascending order.
C8_LaneRule ==
    [][sweep'.op = "gc_attack_battlefield" =>
        /\ \A i \in 0..(Len(bf) - 1) :
              LET a == At(bf, i)
                  e == At(enemy_bf, i)
                  e2 == At(enemy_bf', i) IN
              IF Eligible(a) /\ e.card # NoCard
              THEN \/ /\ a.card.base_damage >= e.remaining_hp
                      /\ e2.card = NoCard
                   \/ /\ a.card.base_damage < e.remaining_hp
                      /\ e2.card = e.card
                      /\ e2.remaining_hp = e.remaining_hp - a.card.base_damage
              ELSE e2 = e
        /\ sweep'.result.player_damage = LaneDamageFrom(0, bf, enemy_bf)
        /\ \A k \in 1..Len(sweep'.result.attacks) :
              LET atk == sweep'.result.attacks[k] IN
              /\ atk.target_slot = atk.attacker_slot
              /\ Eligible(At(bf, atk.attacker_slot))
              /\ atk.hit_player = (At(enemy_bf, atk.attacker_slot).card = NoCard)
              /\ k > 1 => sweep'.result.attacks[k - 1].attacker_slot < atk.attacker_slot
        /\ Len(sweep'.result.attacks)
             = Cardinality({i \in 0..(Len(bf) - 1) : Eligible(At(bf, i))})
    ]_vars

\* a sweep in which the last slot hit the player past an occupied slot 0
C8_Witness ==
    /\ sweep.op = "gc_attack_battlefield"
    /\ \E k \in 1..Len(sweep.result.attacks) :
          /\ sweep.result.attacks[k].attacker_slot = Len(bf) - 1
          /\ sweep.result.attacks[k].hit_player
          /\ sweep.result.attacks[k].damage > 0
    /\ sweep.result.player_damage > 0
    /\ At(enemy_bf, 0).card # NoCard

\* C9: when a sweep returns no slot of the attacking battlefield can attack,
\* and until the next gc_on_turn_start every further sweep performs no
\* attack, destroys nothing, deals 0 player damage and leaves the opposing
\* battlefield as it was.
C9_OneAttackPerSweep ==
    [][/\ sweep'.op = "gc_attack_battlefield" =>
            \A i \in 0..(Len(bf') - 1) : ~At(bf', i).can_attack
       /\ (sweep.swept /\ sweep'.op = "gc_attack_battlefield") =>
            /\ sweep'.result = EmptyCombatResult
            /\ enemy_bf' = enemy_bf
            /\ bf' = bf
    ]_vars

\* a second sweep, run after a first one with cards on both battlefields
C9_Witness ==
    /\ sweep.op = "gc_attack_battlefield"
    /\ sweep.result = EmptyCombatResult
    /\ sweep.swept
    /\ \A i \in 0..(Len(bf) - 1) : At(bf, i).card # NoCard /\ At(bf, i).card.base_damage > 0
    /\ At(enemy_bf, 0).card # NoCard

SlotWellFormed(slot) ==
    \/ slot.card = NoCard /\ slot.remaining_hp = 0 /\ ~slot.can_attack
    \/ slot.card # NoCard /\ slot.remaining_hp > 0

\* C10: every slot of both battlefields is either empty with remaining_hp 0
\* and can_attack false, or occupied with remaining_hp > 0.
C10_SlotCardAndHpTogether ==
    /\ \A i \in 0..(Len(bf) - 1) : SlotWellFormed(At(bf, i))
    /\ \A i \in 0..(Len(enemy_bf) - 1) : SlotWellFormed(At(enemy_bf, i))


\* what C11 says of a deploy of card at slot_index on the battlefield slots
DeployAsSpecified(slots, slot_index, card) ==
    LET r == gc_deploy_to_slot(slots, slot_index, card)
        fails == slot_index >= Len(slots) \/ At(slots, slot_index).card # NoCard
    IN /\ (r.res # "Ok") <=> fails
       /\ fails => r.slots = slots
       /\ ~fails =>
            /\ Len(r.slots) = Len(slots)
            /\ \A j \in 0..(Len(slots) - 1) : j # slot_index => At(r.slots, j) = At(slots, j)
            /\ At(r.slots, slot_index).card = card
            /\ ~At(r.slots, slot_index).can_attack

\* C11: gc_deploy_to_slot fails exactly when the slot index is out of range
\* or the slot is occupied, a failed deploy leaves every slot unchanged, and
\* a successful one changes only the target slot, which then holds the card
\* and cannot attack.
C11_DeployToSlot ==
    /\ \A i \in FieldIndices, c \in FieldCards : DeployAsSpecified(bf, i, c)
    /\ \A i \in FieldIndices, c \in EnemyCards : DeployAsSpecified(enemy_bf, i, c)

\* a deploy on an occupied slot has just been refused beside an empty slot
C11_Witness ==
    /\ sweep.op = "gc_deploy_to_slot"
    /\ sweep.res = "ErrOccupied"
    /\ \E i \in 0..(Len(bf) - 1) : At(bf, i).card = NoCard

\* C12: gc_on_turn_start makes exactly the occupied slots attack-eligible,
\* changes nothing else, and a second call in a row changes nothing.
C12_TurnStart ==
    [][sweep'.op = "gc_on_turn_start" =>
        /\ \A i \in 0..(Len(bf) - 1) :
              /\ At(bf', i).can_attack = (At(bf, i).card # NoCard)
              /\ At(bf', i).card = At(bf, i).card
              /\ At(bf', i).remaining_hp = At(bf, i).remaining_hp
        /\ Len(bf') = Len(bf)
        /\ Bf_gc_on_turn_start(bf') = bf'
        /\ sweep.op = "gc_on_turn_start" => bf' = bf
    ]_vars

\* a turn start on a battlefield with an occupied and an empty slot
C12_Witness ==
    /\ sweep.op = "gc_on_turn_start"
    /\ \E i \in 0..(Len(bf) - 1) : At(bf, i).card # NoCard /\ At(bf, i).can_attack
    /\ \E i \in 0..(Len(bf) - 1) : At(bf, i).card = NoCard /\ ~At(bf, i).can_attack

\* C13: an attack of a sweep on an occupied opposing slot destroys it (card
\* removed, remaining hp 0) exactly when the damage is at least its remaining
\* hp, and otherwise lowers its remaining hp by the damage and leaves the
\* card; cards_destroyed counts the opposing slots the sweep emptied.
C13_SlotDamage ==
    [][sweep'.op = "gc_attack_battlefield" =>
        /\ \A i \in 0..(Len(bf) - 1) :
              LET a == At(bf, i)
                  e == At(enemy_bf, i)
                  e2 == At(enemy_bf', i) IN
              (Eligible(a) /\ e.card # NoCard) =>
                  /\ (e2.card = NoCard) <=> (a.card.base_damage >= e.remaining_hp)
                  /\ e2.card = NoCard => e2.remaining_hp = 0
                  /\ e2.card # NoCard =>
                        /\ e2.card = e.card
                        /\ e2.remaining_hp = e.remaining_hp - a.card.base_damage
        /\ sweep'.result.cards_destroyed
             = Cardinality({i \in 0..(Len(enemy_bf) - 1) :
                               At(enemy_bf, i).card # NoCard /\ At(enemy_bf', i).card = NoCard})
        /\ \A k \in 1..Len(sweep'.result.attacks) :
              LET atk == sweep'.result.attacks[k] IN
              atk.target_destroyed
                = (/\ At(enemy_bf, atk.target_slot).card # NoCard
                   /\ At(enemy_bf', atk.target_slot).card = NoCard)
    ]_vars

\* a sweep that destroyed one opposing card and wounded another
C13_Witness ==
    /\ sweep.op = "gc_attack_battlefield"
    /\ sweep.result.cards_destroyed = 1
    /\ \E k \in 1..Len(sweep.result.attacks) :
          LET atk == sweep.result.attacks[k] IN
          /\ ~atk.target_destroyed
          /\ ~atk.hit_player
          /\ atk.damage > 0
          /\ At(enemy_bf, atk.target_slot).card # NoCard

----------------------------------------------------------------------------
(* SpecReplay: two battles created from the same arguments and driven by   *)
(* the same calls with the same arguments, each in its own process.        *)

\* a pool of two cards, of which one is on display
ReplayPoolConfig ==
    [display_size |-> 1, acquire_cost |-> 1, refresh_cost |-> 1, initial_pool_size |-> 2]

ReplayPlayers == <<BattlePlayer("p1", <<>>), BattlePlayer("p2", <<>>)>>

\* what SystemTime::now() can read when a call is made
ClockReadings == {[secs |-> 26, nanos |-> 10], [secs |-> 26, nanos |-> 11]}

Monster(id, star, slot) ==
    [id |-> id, template_id |-> "slime", star |-> star, golden_level |-> 0, slot |-> slot]

\* the triples handed to gc_merge_monsters: one that merges on the board, one
\* that merges on the bench, one that does not merge
MergeTriples ==
    {<<Monster("m1", 1, 2), Monster("m2", 1, 0), Monster("m3", 1, -1)>>,
     <<Monster("m1", 3, -1), Monster("m2", 3, -1), Monster("m3", 3, -1)>>,
     <<Monster("m1", 1, 0), Monster("m2", 2, 1), Monster("m3", 1, -1)>>}

\* both battles have the players and the configuration in common; each draws
\* its own shuffle
InitReplay ==
    /\ \E b1 \in Battle_gc_new_with_config(ReplayPlayers, ReplayPoolConfig) :
         \E b2 \in Battle_gc_new_with_config(ReplayPlayers, ReplayPoolConfig) :
            replay = <<[battle |-> b1, merge |-> MergeFailed],
                       [battle |-> b2, merge |-> MergeFailed]>>
    /\ IdleField
    /\ IdleServer
    /\ IdleBattle
    /\ IdleBoss
    /\ IdleArena

ReplayIds == {"p1", "p2"}

\* every card id of the generated pool
ReplayCardIds ==
    LET pool == gc_generate_card_pool(ReplayPoolConfig.initial_pool_size)
    IN {pool[k].id : k \in 1..Len(pool)}

ReplayAcquire ==
    \E player_id \in ReplayIds, card_id \in ReplayCardIds :
        \E r1 \in gc_acquire_card_from_pool(replay[1].battle, player_id, card_id) :
            \E r2 \in gc_acquire_card_from_pool(replay[2].battle, player_id, card_id) :
                replay' = <<[replay[1] EXCEPT !.battle = r1.b],
                            [replay[2] EXCEPT !.battle = r2.b]>>

ReplayRefresh ==
    \E player_id \in ReplayIds :
        \E r1 \in gc_refresh_pool(replay[1].battle, player_id) :
            \E r2 \in gc_refresh_pool(replay[2].battle, player_id) :
                replay' = <<[replay[1] EXCEPT !.battle = r1.b],
                            [replay[2] EXCEPT !.battle = r2.b]>>

ReplayNextTurn ==
    /\ gc_next_turn(replay[1].battle).turn <= MaxTurn
    /\ gc_next_turn(replay[2].battle).turn <= MaxTurn
    /\ replay' = <<[replay[1] EXCEPT !.battle = gc_next_turn(replay[1].battle)],
                   [replay[2] EXCEPT !.battle = gc_next_turn(replay[2].battle)]>>

ReplayMerge ==
    \E monsters \in MergeTriples :
        \E now1 \in ClockReadings, now2 \in ClockReadings :
            replay' = <<[replay[1] EXCEPT !.merge = gc_merge_monsters(monsters, now1)],
                        [replay[2] EXCEPT !.merge = gc_merge_monsters(monsters, now2)]>>

NextReplay ==
    /\ \/ ReplayAcquire
       \/ ReplayRefresh
       \/ ReplayNextTurn
       \/ ReplayMerge
    /\ UNCHANGED fieldVars
    /\ UNCHANGED serverVars
    /\ UNCHANGED battleVars
    /\ UNCHANGED bossVars
    /\ UNCHANGED arenaVars

SpecReplay == InitReplay /\ [][NextReplay]_vars

----------------------------------------------------------------------------
(* SpecEndTurn: a game of two players on the server and the same game in   *)
(* the browser build, both given the same end-turn requests.               *)

\* the turn number the server's game is followed to
MaxEndTurns == 60

EndTurnPlayers == <<Player_gc_new("p1"), Player_gc_new("p2")>>

EndTurnCallers == {"p1", "p2"}

\* gs_start_game on the server; add_player twice and start in the browser
InitEndTurn ==
    /\ \E b \in Battle_gc_new_with_config(EndTurnPlayers, BattlePoolConfig) :
          replay = <<[build |-> "server", battle |-> [b EXCEPT !.phase = "Playing"],
                      res |-> "Ok"],
                     [build |-> "browser", battle |-> GwBattle_start(b), res |-> "Ok"]>>
    /\ IdleField
    /\ IdleServer
    /\ IdleBattle
    /\ IdleBoss
    /\ IdleArena

\* the same request to gs_end_turn and to GwBattle::end_turn
EndTurnBoth ==
    \E player_id \in EndTurnCallers :
        LET served == gs_end_turn(replay[1].battle, player_id)
            browser == GwBattle_end_turn(replay[2].battle, player_id)
        IN /\ served.b.turn <= MaxEndTurns
           /\ replay' = <<[replay[1] EXCEPT !.battle = served.b, !.res = served.res],
                           [replay[2] EXCEPT !.battle = browser.b, !.res = browser.res]>>

NextEndTurn ==
    /\ EndTurnBoth
    /\ UNCHANGED fieldVars
    /\ UNCHANGED serverVars
    /\ UNCHANGED battleVars
    /\ UNCHANGED bossVars
    /\ UNCHANGED arenaVars

SpecEndTurn == InitEndTurn /\ [][NextEndTurn]_vars

----------------------------------------------------------------------------
(* SpecBoss: a boss under damage, weekly damage, rage and turn end, with   *)
(* any arguments.                                                          *)

\* the revive count the model stops at: no call raises the counter past it
BossReviveCap == 4

\* the bosses built with GcBoss::gc_new, gc_add_skill and gc_set_revive: a
\* Weekly boss that revives twice with 5% more attack each time, a Weekly boss
\* whose 5% of base attack is less than 1, and a Mini boss without revival
BossConfigs ==
    {gc_set_revive(gc_add_skill(Boss_gc_new("Weekly", 4, 40, 2, 3, Ratio(1, 2)),
                                Skill_gc_new("skill_slam", 0)), 2, 5),
     gc_set_revive(Boss_gc_new("Weekly", 2, 10, 0, 2, Ratio(1, 2)), 1, 5),
     Boss_gc_new("Mini", 3, 25, 0, 2, Ratio(1, 2))}

\* a damage above 2^30 that is not an f32 value
LargeDamage == 1073741921

\* the damage callers pass
BossDamages == {0, 1, 3, 9, LargeDamage}

\* the surviving_org_count callers pass
SurvivingOrgCounts == {0, 1, 2}

\* the amounts callers pass to gc_add_rage, u32::MAX included
RageAmounts == {U32(0, 0), U32(0, 1), U32(0, 2), U32(65535, 65534), U32(65535, 65535)}

\* the record of a call: the method, its arguments, what it returned and
\* whether it panicked
BossCalled(op, args, ret, panicked) ==
    [op |-> op, args |-> args, ret |-> ret, panicked |-> panicked]

NoArgs == [none |-> TRUE]

InitBoss ==
    /\ boss \in BossConfigs
    /\ bossLast = BossCalled("gc_new", NoArgs, NoArgs, FALSE)
    /\ IdleField
    /\ IdleServer
    /\ IdleBattle
    /\ IdleReplay
    /\ IdleArena

BossTakeDamage ==
    \E damage \in BossDamages :
        \E r \in Boss_gc_take_damage(boss, damage) :
            /\ r.boss.revive_count <= BossReviveCap
            /\ boss' = r.boss
            /\ bossLast' = BossCalled("gc_take_damage", [damage |-> damage], r.ret, r.panicked)

BossTakeDamageWeekly ==
    \E damage \in BossDamages, surviving_org_count \in SurvivingOrgCounts :
        \E r \in gc_take_damage_weekly(boss, damage, surviving_org_count) :
            /\ r.boss.revive_count <= BossReviveCap
            /\ boss' = r.boss
            /\ bossLast' = BossCalled("gc_take_damage_weekly",
                                      [damage |-> damage,
                                       surviving_org_count |-> surviving_org_count],
                                      r.ret, r.panicked)

BossAddRage ==
    \E amount \in RageAmounts :
        \E r \in gc_add_rage(boss, amount) :
            /\ boss' = r.boss
            /\ bossLast' = BossCalled("gc_add_rage", [amount |-> amount], NoArgs, r.panicked)

BossConsumeRage ==
    /\ boss' = gc_consume_rage(boss)
    /\ bossLast' = BossCalled("gc_consume_rage", NoArgs, NoArgs, FALSE)

BossTurnEnd ==
    /\ boss' = gc_on_turn_end(boss)
    /\ bossLast' = BossCalled("gc_on_turn_end", NoArgs, NoArgs, FALSE)

NextBoss ==
    /\ \/ BossTakeDamage
       \/ BossTakeDamageWeekly
       \/ BossAddRage
       \/ BossConsumeRage
       \/ BossTurnEnd
    /\ UNCHANGED fieldVars
    /\ UNCHANGED serverVars
    /\ UNCHANGED battleVars
    /\ UNCHANGED replayVars
    /\ UNCHANGED arenaVars

SpecBoss == InitBoss /\ [][NextBoss]_vars

----------------------------------------------------------------------------
(* SpecDamage: a boss under gc_take_damage alone, called again and again.  *)

\* the bosses of SpecBoss, a Weekly boss never given gc_set_revive and one
\* that revives three times
DamageConfigs ==
    BossConfigs \cup {Boss_gc_new("Weekly", 5, 100, 4, 6, Ratio(1, 2)),
                      gc_set_revive(Boss_gc_new("Weekly", 6, 60, 2, 4, Ratio(1, 2)), 3, 5)}

InitDamage ==
    /\ boss \in DamageConfigs
    /\ bossLast = BossCalled("gc_new", NoArgs, NoArgs, FALSE)
    /\ IdleField
    /\ IdleServer
    /\ IdleBattle
    /\ IdleReplay
    /\ IdleArena

NextDamage ==
    /\ BossTakeDamage
    /\ UNCHANGED fieldVars
    /\ UNCHANGED serverVars
    /\ UNCHANGED battleVars
    /\ UNCHANGED replayVars
    /\ UNCHANGED arenaVars

\* the caller goes on calling
SpecDamage == InitDamage /\ [][NextDamage]_vars /\ WF_vars(NextDamage)

----------------------------------------------------------------------------
(* SpecSkills: the skills of a boss under use, cooldown ticks, rage and    *)
(* skill selection.                                                        *)

\* a boss with the skills named, in list order, and its own rage skill
SkilledBoss(skills) ==
    LET bare == gc_set_rage_skill(Boss_gc_new("Mini", 3, 25, 0, 2, Ratio(1, 2)),
                                  gc_new_rage_skill("skill_storm", 2))
        add[k \in 0..Len(skills)] ==
            IF k = 0 THEN bare ELSE gc_add_skill(add[k - 1], skills[k])
    IN add[Len(skills)]

\* bosses whose longest cooldown is shared by two skills, bosses where it
\* is not, and a boss without skills
SkillConfigs ==
    {SkilledBoss(<<Skill_gc_new("skill_claw", 2), Skill_gc_new("skill_bite", 2),
                   Skill_gc_new("skill_screech", 1)>>),
     SkilledBoss(<<Skill_gc_new("skill_claw", 0), Skill_gc_new("skill_screech", 2)>>),
     SkilledBoss(<<Skill_gc_new("skill_claw", 1), Skill_gc_new("skill_bite", 1)>>),
     SkilledBoss(<<>>)}

InitSkills ==
    /\ boss \in SkillConfigs
    /\ bossLast = BossCalled("gc_new", NoArgs, NoArgs, FALSE)
    /\ IdleField
    /\ IdleServer
    /\ IdleBattle
    /\ IdleReplay
    /\ IdleArena

\* boss.skills[index].gc_use()
SkillUse ==
    \E k \in 1..Len(boss.skills) :
        /\ boss' = [boss EXCEPT !.skills[k] = gc_use(boss.skills[k])]
        /\ bossLast' = BossCalled("gc_use", [index |-> k - 1], NoArgs, FALSE)

SkillSelect ==
    /\ boss' = boss
    /\ bossLast' = BossCalled("gc_select_skill", NoArgs, gc_select_skill(boss), FALSE)

NextSkills ==
    /\ \/ SkillUse
       \/ SkillSelect
       \/ BossTurnEnd
       \/ BossAddRage
       \/ BossConsumeRage
    /\ UNCHANGED fieldVars
    /\ UNCHANGED serverVars
    /\ UNCHANGED battleVars
    /\ UNCHANGED replayVars
    /\ UNCHANGED arenaVars

SpecSkills == InitSkills /\ [][NextSkills]_vars

----------------------------------------------------------------------------
(* SpecArena: monsters placed on the two sides of an arena, fighting,      *)
(* and cleared away by gc_process_deaths.                                  *)

\* the terrains of the two sides
ArenaTerrains == {<<"Plain", "Plain">>, <<"Volcano", "Glacier">>}

\* the player's monsters: the attacker of test_attack_calculation and a
\* frail one
PlayerMonsters ==
    {Monster_new("fire_dragon", "Fire", ToU32(2000), ToU32(1000), ToU32(2000)),
     Monster_new("scout", "Wind", ToU32(1000), ToU32(500), ToU32(300))}

\* the enemy's monsters: two of attack 1000, one with defense 1500 and 1000
\* hp (the defender of test_attack_calculation), one with defense 2000 and
\* 500 hp, and one whose attack is u32::MAX
EnemyMonsters ==
    {Monster_new("water_spirit", "Water", ToU32(1000), ToU32(1500), ToU32(1000)),
     Monster_new("golem", "Earth", ToU32(1000), ToU32(2000), ToU32(500)),
     Monster_new("titan", "Dark", U32Max, ToU32(1500), ToU32(500))}

\* the slots callers name: two of the five, and one past the end
ArenaSlots == {0, 2, 5}

ArenaCalled(op, args, ret) == [op |-> op, args |-> args, ret |-> ret]

\* the ids of the monsters on a board
OnBoard(board) == {board[k].id : k \in 1..Len(board)} \ {"none"}

\* the ids of the monsters in the graveyard
Buried == {graveyard[k].id : k \in 1..Len(graveyard)}

\* the occupied slots of a board
Occupied(board) == {i \in 0..(Len(board) - 1) : At(board, i) # NoMonster}

InitArena ==
    /\ \E t \in ArenaTerrains : arena = Arena_new(t[1], t[2])
    /\ bench = <<>>
    /\ graveyard = <<>>
    /\ turn_state = [phase |-> "idle"]
    /\ arenaLast = ArenaCalled("new", NoArgs, NoArgs)
    /\ IdleField
    /\ IdleServer
    /\ IdleBattle
    /\ IdleReplay
    /\ IdleBoss

ArenaSummon ==
    \E slot \in ArenaSlots, m \in PlayerMonsters :
        /\ m.id \notin OnBoard(arena.player_monsters) \cup Buried
        /\ LET r == summon_player_monster(arena, slot, m) IN
           /\ arena' = r.arena
           /\ arenaLast' = ArenaCalled("summon_player_monster", [slot |-> slot], r.res)
        /\ UNCHANGED <<bench, graveyard, turn_state>>

\* arena.enemy_monsters[slot] = Some(monster)
ArenaPlaceEnemy ==
    \E slot \in ArenaSlots \cap (0..(ArenaSlotCount - 1)), m \in EnemyMonsters :
        /\ At(arena.enemy_monsters, slot) = NoMonster
        /\ m.id \notin OnBoard(arena.enemy_monsters) \cup Buried
        /\ arena' = [arena EXCEPT !.enemy_monsters = SetAt(arena.enemy_monsters, slot, m)]
        /\ arenaLast' = ArenaCalled("place_enemy", [slot |-> slot], NoArgs)
        /\ UNCHANGED <<bench, graveyard, turn_state>>

\* gc_execute_monster_battle on a player's monster and an enemy's, each on
\* the terrain of its side
ArenaExecuteBattle ==
    \E i \in Occupied(arena.player_monsters), j \in Occupied(arena.enemy_monsters) :
        LET attacker == At(arena.player_monsters, i)
            defender == At(arena.enemy_monsters, j)
            r == gc_execute_monster_battle(attacker, defender,
                                           arena.player_terrain, arena.enemy_terrain)
        IN /\ arena' = [arena EXCEPT
                          !.player_monsters = SetAt(arena.player_monsters, i, r.attacker),
                          !.enemy_monsters = SetAt(arena.enemy_monsters, j, r.defender)]
           /\ arenaLast' = ArenaCalled("gc_execute_monster_battle",
                                       [attacker |-> attacker, defender |-> defender],
                                       r.result)
           /\ UNCHANGED <<bench, graveyard, turn_state>>

\* gc_calculate_attack for a player's monster against an enemy's or, with no
\* defender, against the player directly
ArenaCalculateAttack ==
    \E i \in Occupied(arena.player_monsters),
       j \in Occupied(arena.enemy_monsters) \cup {-1} :
        LET attacker == At(arena.player_monsters, i)
            defender == IF j = -1 THEN NoMonster ELSE At(arena.enemy_monsters, j)
        IN /\ arenaLast' = ArenaCalled("gc_calculate_attack",
                                       [attacker |-> attacker, defender |-> defender],
                                       gc_calculate_attack(attacker, defender, i, j,
                                                           arena.player_terrain,
                                                           arena.enemy_terrain))
           /\ UNCHANGED <<arena, bench, graveyard, turn_state>>

\* gc_process_deaths on the board of one side
ArenaProcessDeaths ==
    \/ LET r == gc_process_deaths(arena.player_monsters, graveyard) IN
       /\ arena' = [arena EXCEPT !.player_monsters = r.board]
       /\ graveyard' = r.graveyard
       /\ arenaLast' = ArenaCalled("gc_process_deaths", [side |-> "player"], r.events)
       /\ UNCHANGED <<bench, turn_state>>
    \/ LET r == gc_process_deaths(arena.enemy_monsters, graveyard) IN
       /\ arena' = [arena EXCEPT !.enemy_monsters = r.board]
       /\ graveyard' = r.graveyard
       /\ arenaLast' = ArenaCalled("gc_process_deaths", [side |-> "enemy"], r.events)
       /\ UNCHANGED <<bench, turn_state>>

\* the two free-target selections, on the enemy side of the arena
ArenaSelectTarget ==
    /\ arenaLast' = ArenaCalled("select_target", NoArgs,
                                [auto |-> gc_auto_select_target(arena.enemy_monsters,
                                                                arena.enemy_terrain),
                                 weakest |-> get_weakest_enemy_slot(arena)])
    /\ UNCHANGED <<arena, bench, graveyard, turn_state>>

NextArena ==
    /\ \/ ArenaSummon
       \/ ArenaPlaceEnemy
       \/ ArenaExecuteBattle
       \/ ArenaCalculateAttack
       \/ ArenaProcessDeaths
       \/ ArenaSelectTarget
    /\ UNCHANGED fieldVars
    /\ UNCHANGED serverVars
    /\ UNCHANGED battleVars
    /\ UNCHANGED replayVars
    /\ UNCHANGED bossVars

SpecArena == InitArena /\ [][NextArena]_vars

----------------------------------------------------------------------------
(* SpecTurn: a turn state driven through its phases beside an arena whose  *)
(* player slots fill and empty.                                            *)

\* turn numbers stay at or below this
MaxTurnNumber == 3

\* the slots callers name: two of the arena and one past its end
TurnSlots == {0, 2, 5}

\* the run of consecutive next_phase calls that the last call belongs to:
\* the turn state the run started from and the number of calls so far
NoStreak == [count |-> 0]

\* the record of a call, the run of next_phase calls it belongs to, and
\* the slots marked since the last wrap from End to Draw (history)
TurnCalled(op, args, ret, streak, marked) ==
    [op |-> op, args |-> args, ret |-> ret, streak |-> streak, marked |-> marked]

InitTurn ==
    /\ turn_state = TurnState_default
    /\ arena = Arena_new("Plain", "Plain")
    /\ bench = <<>>
    /\ graveyard = <<>>
    /\ arenaLast = TurnCalled("default", NoArgs, NoArgs, NoStreak, {})
    /\ IdleField
    /\ IdleServer
    /\ IdleBattle
    /\ IdleReplay
    /\ IdleBoss

TurnNextPhase ==
    /\ next_phase(turn_state).turn_number <= MaxTurnNumber
    /\ turn_state' = next_phase(turn_state)
    /\ arenaLast' =
         TurnCalled("next_phase", NoArgs, NoArgs,
                    IF arenaLast.op = "next_phase" /\ arenaLast.streak.count < 5
                    THEN [arenaLast.streak EXCEPT !.count = arenaLast.streak.count + 1]
                    ELSE [count |-> 1, from |-> turn_state],
                    IF turn_state.phase = "End" THEN {} ELSE arenaLast.marked)
    /\ UNCHANGED <<arena, bench, graveyard>>

TurnSkipBattle ==
    /\ turn_state' = skip_battle(turn_state)
    /\ arenaLast' = TurnCalled("skip_battle", NoArgs, NoArgs, NoStreak, arenaLast.marked)
    /\ UNCHANGED <<arena, bench, graveyard>>

TurnEndTurn ==
    /\ end_turn(turn_state).turn_number <= MaxTurnNumber
    /\ turn_state' = end_turn(turn_state)
    /\ arenaLast' = TurnCalled("end_turn", NoArgs, NoArgs, NoStreak, {})
    /\ UNCHANGED <<arena, bench, graveyard>>

TurnMarkAttacked ==
    \E slot \in TurnSlots :
        /\ turn_state' = mark_attacked(turn_state, slot)
        /\ arenaLast' = TurnCalled("mark_attacked",
                                   [slot |-> slot,
                                    marked_before |-> slot \in arenaLast.marked],
                                   NoArgs, NoStreak,
                                   arenaLast.marked \cup {slot})
        /\ UNCHANGED <<arena, bench, graveyard>>

TurnSummon ==
    \E slot \in TurnSlots, m \in PlayerMonsters :
        /\ m.id \notin OnBoard(arena.player_monsters) \cup OnBoard(bench)
        /\ LET r == summon_player_monster(arena, slot, m) IN
           /\ arena' = r.arena
           /\ arenaLast' = TurnCalled("summon_player_monster", [slot |-> slot], r.res,
                                      NoStreak, arenaLast.marked)
        /\ UNCHANGED <<turn_state, bench, graveyard>>

TurnRecall ==
    \E slot \in TurnSlots :
        LET r == recall_to_bench(arena, bench, slot) IN
        /\ arena' = r.arena
        /\ bench' = r.bench
        /\ arenaLast' = TurnCalled("recall_to_bench", [slot |-> slot], r.ret.id,
                                   NoStreak, arenaLast.marked)
        /\ UNCHANGED <<turn_state, graveyard>>

TurnDeploy ==
    \E slot \in TurnSlots, m \in PlayerMonsters :
        LET r == deploy_from_bench(arena, bench, m.id, slot) IN
        /\ arena' = r.arena
        /\ bench' = r.bench
        /\ arenaLast' = TurnCalled("deploy_from_bench", [slot |-> slot, monster_id |-> m.id],
                                   r.res, NoStreak, arenaLast.marked)
        /\ UNCHANGED <<turn_state, graveyard>>

NextTurn ==
    /\ \/ TurnNextPhase
       \/ TurnSkipBattle
       \/ TurnEndTurn
       \/ TurnMarkAttacked
       \/ TurnSummon
       \/ TurnRecall
       \/ TurnDeploy
    /\ UNCHANGED fieldVars
    /\ UNCHANGED serverVars
    /\ UNCHANGED battleVars
    /\ UNCHANGED replayVars
    /\ UNCHANGED bossVars

SpecTurn == InitTurn /\ [][NextTurn]_vars

----------------------------------------------------------------------------
(* SpecStats: a monster on the bench merged up the star and golden         *)
(* progression, its effective stats read on the terrain of the arena.      *)

\* the highest golden level a merge reaches
MaxGolden == 2

\* 2^31, and 2^24 + 1, which no f32 holds
StatsAttacks == {ToU32(0), ToU32(1), ToU32(3), ToU32(1000), U32(256, 1), U32(32768, 0), U32Max}

StatsDefenses == {ToU32(0), ToU32(5), U32(32768, 0)}

StatsAttributes == {"Fire", "Water", "Earth"}

StatsTerrains == {"Plain", "Volcano", "Glacier", "Mountain"}

\* the monster on the bench and the two copies merged with it
StatsTriple ==
    <<bench[1], [bench[1] EXCEPT !.id = "copy1"], [bench[1] EXCEPT !.id = "copy2"]>>

InitStats ==
    /\ \E t \in StatsTerrains : arena = Arena_new(t, t)
    /\ \E atk \in StatsAttacks, def \in StatsDefenses, attr \in StatsAttributes :
          bench = <<Monster_new("unit", attr, atk, def, ToU32(100))>>
    /\ graveyard = <<>>
    /\ turn_state = [phase |-> "idle"]
    /\ arenaLast = ArenaCalled("new", NoArgs, NoArgs)
    /\ IdleField
    /\ IdleServer
    /\ IdleBattle
    /\ IdleReplay
    /\ IdleBoss

\* gc_merge_monsters(three copies): the merged monster takes their place
StatsMerge ==
    /\ bench[1].golden_level < MaxGolden
    /\ gc_can_merge_triple(StatsTriple[1], StatsTriple[2], StatsTriple[3])
    /\ \E now \in ClockReadings :
          bench' = <<merged_monster(StatsTriple, now)>>
    /\ arenaLast' = ArenaCalled("gc_merge_monsters",
                                [star |-> bench[1].star, golden_level |-> bench[1].golden_level],
                                NoArgs)
    /\ UNCHANGED <<arena, graveyard, turn_state>>

\* effective_atk and effective_def on the terrain of the player's side
StatsEffective ==
    /\ arenaLast' = ArenaCalled("effective",
                                [monster |-> bench[1], terrain |-> arena.player_terrain],
                                [atk |-> effective_atk(bench[1], arena.player_terrain),
                                 def |-> effective_def(bench[1], arena.player_terrain)])
    /\ UNCHANGED <<arena, bench, graveyard, turn_state>>

NextStats ==
    /\ \/ StatsMerge
       \/ StatsEffective
    /\ UNCHANGED fieldVars
    /\ UNCHANGED serverVars
    /\ UNCHANGED battleVars
    /\ UNCHANGED replayVars
    /\ UNCHANGED bossVars

SpecStats == InitStats /\ [][NextStats]_vars

----------------------------------------------------------------------------
(* SpecTerrain: the terrains of an arena generated from the world terrain, *)
(* the enemy type and a seed, and gc_select_terrain called on its own.     *)

WorldTerrains ==
    {"Grassland", "Desert", "Snowfield", "Waterside", "Highland", "Woodland", "Cave", "Ruins"}

EnemyTypes == {"Normal", "FireType", "WaterType", "DarkType", "LightType", "Boss"}

\* seeds whose two draws fall on and beside the thresholds of the tables
TerrainSeeds == {0, 59, 60, 8990, 9089, 5960, 9999, 12345, 4294967}

\* weight lists handed to gc_select_terrain directly: a table, a table with
\* a boost, lists of no weight and the empty list
SelectWeights ==
    {gc_get_base_terrain_weights("Grassland"),
     gc_apply_enemy_modifier(gc_get_base_terrain_weights("Grassland"), "FireType"),
     <<Weight("Forest", 0), Weight("Ocean", 5), Weight("Holy", 0), Weight("Swamp", 1)>>,
     <<Weight("Forest", 0), Weight("Mountain", 0)>>,
     <<>>}

SelectRandoms == {0, 4, 5, 6, 59, 60, 89, 90, 99, 100, 159, 160, 189, 190}

InitTerrain ==
    /\ arena = Arena_new("Plain", "Plain")
    /\ bench = <<>>
    /\ graveyard = <<>>
    /\ turn_state = [phase |-> "idle"]
    /\ arenaLast = ArenaCalled("new", NoArgs, NoArgs)
    /\ IdleField
    /\ IdleServer
    /\ IdleBattle
    /\ IdleReplay
    /\ IdleBoss

\* gc_generate_battle_terrain, and the arena made of the two terrains
TerrainGenerate ==
    \E world \in WorldTerrains, enemy \in EnemyTypes, seed \in TerrainSeeds :
        LET made == gc_generate_battle_terrain(world, enemy, seed)
        IN /\ arena' = Arena_new(made.player_terrain, made.enemy_terrain)
           /\ arenaLast' = ArenaCalled("gc_generate_battle_terrain",
                                       [world_terrain |-> world, enemy_type |-> enemy,
                                        random_seed |-> seed],
                                       made)
           /\ UNCHANGED <<bench, graveyard, turn_state>>

TerrainSelect ==
    \E weights \in SelectWeights, random_value \in SelectRandoms :
        /\ arenaLast' = ArenaCalled("gc_select_terrain",
                                    [weights |-> weights, random_value |-> random_value],
                                    gc_select_terrain(weights, random_value))
        /\ UNCHANGED <<arena, bench, graveyard, turn_state>>

NextTerrain ==
    /\ \/ TerrainGenerate
       \/ TerrainSelect
    /\ UNCHANGED fieldVars
    /\ UNCHANGED serverVars
    /\ UNCHANGED battleVars
    /\ UNCHANGED replayVars
    /\ UNCHANGED bossVars

SpecTerrain == InitTerrain /\ [][NextTerrain]_vars

----------------------------------------------------------------------------
(* Summoning on the arena: summon_player_monster, on_turn_start and the    *)
(* two validators of gc_summon.rs, called in any order.                    *)

\* the levels (u8) callers pass: the ends of each band of
\* gc_required_tributes and the largest u8
SummonLevels == {0, 4, 5, 6, 7, 255}

\* the sacrifice lists callers pass: empty, one slot, the same slot twice,
\* two different slots, a slot past the end, and three entries with a repeat
SacrificeLists == {<<>>, <<0>>, <<2>>, <<0, 0>>, <<0, 2>>, <<2, 5>>, <<0, 2, 2>>}

InitSummon ==
    /\ arena = Arena_new("Plain", "Plain")
    /\ bench = <<>>
    /\ graveyard = <<>>
    /\ turn_state = [phase |-> "idle"]
    /\ arenaLast = ArenaCalled("new", NoArgs, NoArgs)
    /\ IdleField
    /\ IdleServer
    /\ IdleBattle
    /\ IdleReplay
    /\ IdleBoss

\* arena.summon_player_monster(slot, monster)
SummonMonster ==
    \E slot \in ArenaSlots, m \in PlayerMonsters :
        /\ m.id \notin OnBoard(arena.player_monsters)
        /\ LET r == summon_player_monster(arena, slot, m) IN
           /\ arena' = r.arena
           /\ arenaLast' = ArenaCalled("summon_player_monster", [slot |-> slot], r.res)
        /\ UNCHANGED <<bench, graveyard, turn_state>>

\* arena.on_turn_start()
SummonTurnStart ==
    /\ arena' = Arena_on_turn_start(arena)
    /\ arenaLast' = ArenaCalled("on_turn_start", NoArgs, NoArgs)
    /\ UNCHANGED <<bench, graveyard, turn_state>>

\* gc_validate_normal_summon(level, normal_summon_used), the flag being the
\* arena's or one the caller keeps
SummonValidateNormal ==
    \E level \in SummonLevels, used \in {arena.normal_summon_used, TRUE} :
        /\ arenaLast' = ArenaCalled("gc_validate_normal_summon",
                                    [level |-> level, normal_summon_used |-> used],
                                    gc_validate_normal_summon(level, used))
        /\ UNCHANGED <<arena, bench, graveyard, turn_state>>

\* gc_validate_tribute_summon(level, sacrifice_slots,
\* &arena.player_occupied_slots())
SummonValidateTribute ==
    \E level \in SummonLevels, sacrifice_slots \in SacrificeLists :
        /\ arenaLast' = ArenaCalled("gc_validate_tribute_summon",
                                    [level |-> level, sacrifice_slots |-> sacrifice_slots,
                                     occupied_slots |-> player_occupied_slots(arena)],
                                    gc_validate_tribute_summon(level, sacrifice_slots,
                                        player_occupied_slots(arena)))
        /\ UNCHANGED <<arena, bench, graveyard, turn_state>>

NextSummon ==
    /\ \/ SummonMonster
       \/ SummonTurnStart
       \/ SummonValidateNormal
       \/ SummonValidateTribute
    /\ UNCHANGED fieldVars
    /\ UNCHANGED serverVars
    /\ UNCHANGED battleVars
    /\ UNCHANGED replayVars
    /\ UNCHANGED bossVars

SpecSummon == InitSummon /\ [][NextSummon]_vars

----------------------------------------------------------------------------
(* The server's rooms (gs_state.rs) and its connections (gs_websocket.rs). *)
(* Every method of GsAppState takes and releases the locks of rooms and    *)
(* players one after the other; each stretch under one lock is a step, and *)
(* the steps of different connections interleave. Names, the ready flags'  *)
(* use and the battle of a room play no part in membership and are left    *)
(* out; a room id of 0 stands for None.                                    *)

\* the room ids uuid::Uuid::new_v4 hands out, in the order it hands them
\* out: no id is handed out twice
MaxRooms == 3

RoomIds == 1..MaxRooms

\* the player ids clients log in with
PlayerIds == {"p1", "p2"}

\* the connections
Sockets == {1, 2}

\* no entry under this key in the HashMap of rooms, of players
NoRoom == [id |-> 0]

NotConnected == [id |-> "none"]

\* GsRoom::gs_new
Room_gs_new(id, owner_id) ==
    [id |-> id, owner_id |-> owner_id,
     players |-> <<[id |-> owner_id, ready |-> FALSE]>>,
     max_players |-> 2, game_started |-> FALSE]

\* GsRoom::gs_is_full
gs_is_full(room) == Len(room.players) >= room.max_players

\* GsRoom::gs_add_player: the room afterwards and the bool returned
Room_gs_add_player(room, player_id) ==
    IF gs_is_full(room) THEN [room |-> room, ok |-> FALSE]
    ELSE IF \E k \in 1..Len(room.players) : room.players[k].id = player_id
         THEN [room |-> room, ok |-> FALSE]
    ELSE [room |-> [room EXCEPT !.players = Append(@, [id |-> player_id, ready |-> FALSE])],
          ok |-> TRUE]

\* GsRoom::gs_remove_player
Room_gs_remove_player(room, player_id) ==
    [room EXCEPT !.players = SelectSeq(@, LAMBDA p : p.id # player_id)]

\* GsAppState::gs_new: no rooms, no players
AppState_gs_new ==
    [rooms |-> [r \in RoomIds |-> NoRoom],
     players |-> [p \in PlayerIds |-> NotConnected],
     created |-> 0]

\* gs_player_connect: the entry of the player is inserted, replacing any
\* entry under the same id
gs_player_connect(s, id) == [s EXCEPT !.players[id] = [id |-> id, room_id |-> 0]]

\* gs_create_room up to the release of the rooms lock: a room with a new id
\* and the owner as its only player is inserted
gs_create_room_insert(s, owner_id) ==
    LET room_id == s.created + 1
    IN [s EXCEPT !.created = room_id, !.rooms[room_id] = Room_gs_new(room_id, owner_id)]

\* if let Some(player) = players.get_mut(id) { player.room_id = room_id }:
\* the last step of gs_create_room, gs_join_room and gs_leave_room
set_player_room_id(s, player_id, room_id) ==
    IF s.players[player_id] = NotConnected THEN s
    ELSE [s EXCEPT !.players[player_id].room_id = room_id]

\* gs_join_room up to drop(rooms): the state afterwards and Ok or Err
gs_join_room_add(s, room_id, player_id) ==
    IF s.rooms[room_id] = NoRoom THEN [s |-> s, res |-> "Err"]
    ELSE IF s.rooms[room_id].game_started THEN [s |-> s, res |-> "Err"]
    ELSE LET added == Room_gs_add_player(s.rooms[room_id], player_id)
         IN IF ~added.ok THEN [s |-> s, res |-> "Err"]
            ELSE [s |-> [s EXCEPT !.rooms[room_id] = added.room], res |-> "Ok"]

\* gs_leave_room up to drop(rooms): the player is taken off the room's list
\* and a room left empty is removed
gs_leave_room_remove(s, room_id, player_id) ==
    IF s.rooms[room_id] = NoRoom THEN s
    ELSE LET room == Room_gs_remove_player(s.rooms[room_id], player_id)
         IN IF room.players = <<>> THEN [s EXCEPT !.rooms[room_id] = NoRoom]
            ELSE [s EXCEPT !.rooms[room_id] = room]

\* the last step of gs_player_disconnect: players.remove(player_id)
gs_player_disconnect_remove(s, player_id) == [s EXCEPT !.players[player_id] = NotConnected]

\* gs_handle_socket before its first message: nobody logged in, no room;
\* at rest between two messages (pc), no call in flight (room_id is the
\* room a call in flight is about, closing is set once the receive loop has
\* ended)
NewSocket ==
    [player_id |-> "None", current_room_id |-> 0, pc |-> "idle", room_id |-> 0,
     closing |-> FALSE]

InitRooms ==
    /\ server = AppState_gs_new
    /\ sockets = [c \in Sockets |-> NewSocket]
    /\ IdleField
    /\ IdleBattle
    /\ IdleReplay
    /\ IdleBoss
    /\ IdleArena

\* GsWsMessage::Login, as the first message of a connection and under an id
\* no other connection has logged in with
SocketLogin(c) ==
    \E pid \in PlayerIds :
        /\ sockets[c].pc = "idle"
        /\ sockets[c].player_id = "None"
        /\ \A d \in Sockets : sockets[d].player_id # pid
        /\ server' = gs_player_connect(server, pid)
        /\ sockets' = [sockets EXCEPT ![c].player_id = pid]

\* GsWsMessage::CreateRoom, to the point where gs_create_room releases the
\* rooms lock
SocketCreateRoom(c) ==
    /\ sockets[c].pc = "idle"
    /\ sockets[c].player_id # "None"
    /\ server.created < MaxRooms
    /\ server' = gs_create_room_insert(server, sockets[c].player_id)
    /\ sockets' = [sockets EXCEPT ![c].pc = "gs_create_room", ![c].room_id = server'.created]

\* the rest of gs_create_room, and *current_room_id = Some(room_id)
CreateRoomSetPlayer(c) ==
    /\ sockets[c].pc = "gs_create_room"
    /\ server' = set_player_room_id(server, sockets[c].player_id, sockets[c].room_id)
    /\ sockets' = [sockets EXCEPT ![c].pc = "idle", ![c].room_id = 0,
                                  ![c].current_room_id = sockets[c].room_id]

\* GsWsMessage::JoinRoom, to drop(rooms) of gs_join_room or to its Err
SocketJoinRoom(c) ==
    \E room_id \in RoomIds :
        /\ sockets[c].pc = "idle"
        /\ sockets[c].player_id # "None"
        /\ LET r == gs_join_room_add(server, room_id, sockets[c].player_id) IN
           /\ server' = r.s
           /\ sockets' = IF r.res = "Err" THEN sockets
                         ELSE [sockets EXCEPT ![c].pc = "gs_join_room", ![c].room_id = room_id]

\* the rest of gs_join_room, and *current_room_id = Some(room_id)
JoinRoomSetPlayer(c) ==
    /\ sockets[c].pc = "gs_join_room"
    /\ server' = set_player_room_id(server, sockets[c].player_id, sockets[c].room_id)
    /\ sockets' = [sockets EXCEPT ![c].pc = "idle", ![c].room_id = 0,
                                  ![c].current_room_id = sockets[c].room_id]

\* GsWsMessage::LeaveRoom: current_room_id.take() and the call of
\* gs_leave_room
SocketLeaveRoom(c) ==
    /\ sockets[c].pc = "idle"
    /\ sockets[c].player_id # "None"
    /\ sockets[c].current_room_id # 0
    /\ sockets' = [sockets EXCEPT ![c].pc = "gs_leave_room", ![c].current_room_id = 0,
                                  ![c].room_id = sockets[c].current_room_id]
    /\ UNCHANGED server

\* gs_leave_room under the rooms lock
LeaveRoomRemove(c) ==
    /\ sockets[c].pc = "gs_leave_room"
    /\ server' = gs_leave_room_remove(server, sockets[c].room_id, sockets[c].player_id)
    /\ sockets' = [sockets EXCEPT ![c].pc = "gs_leave_room_players"]

\* the rest of gs_leave_room: the player's room_id is set to None; the
\* caller is the LeaveRoom message or gs_player_disconnect
LeaveRoomClearPlayer(c) ==
    /\ sockets[c].pc = "gs_leave_room_players"
    /\ server' = set_player_room_id(server, sockets[c].player_id, 0)
    /\ sockets' = [sockets EXCEPT ![c].room_id = 0,
                                  ![c].pc = IF sockets[c].closing THEN "gs_player_disconnect"
                                            ELSE "idle"]

\* the connection ends between two messages: gs_player_disconnect reads the
\* player's entry and, if it names a room, calls gs_leave_room; a
\* connection that never logged in just ends
SocketClose(c) ==
    /\ sockets[c].pc = "idle"
    /\ UNCHANGED server
    /\ LET pid == sockets[c].player_id IN
       sockets' = IF pid = "None" THEN [sockets EXCEPT ![c] = NewSocket]
                  ELSE IF server.players[pid] # NotConnected /\ server.players[pid].room_id # 0
                       THEN [sockets EXCEPT ![c].closing = TRUE, ![c].pc = "gs_leave_room",
                                            ![c].room_id = server.players[pid].room_id]
                  ELSE [sockets EXCEPT ![c].closing = TRUE, ![c].pc = "gs_player_disconnect"]

\* players.remove(player_id) of gs_player_disconnect; the task of the
\* connection is over and the next connection takes its place
DisconnectRemove(c) ==
    /\ sockets[c].pc = "gs_player_disconnect"
    /\ server' = gs_player_disconnect_remove(server, sockets[c].player_id)
    /\ sockets' = [sockets EXCEPT ![c] = NewSocket]

NextRooms ==
    /\ \E c \in Sockets :
          \/ SocketLogin(c)
          \/ SocketCreateRoom(c)
          \/ CreateRoomSetPlayer(c)
          \/ SocketJoinRoom(c)
          \/ JoinRoomSetPlayer(c)
          \/ SocketLeaveRoom(c)
          \/ LeaveRoomRemove(c)
          \/ LeaveRoomClearPlayer(c)
          \/ SocketClose(c)
          \/ DisconnectRemove(c)
    /\ UNCHANGED fieldVars
    /\ UNCHANGED battleVars
    /\ UNCHANGED replayVars
    /\ UNCHANGED bossVars
    /\ UNCHANGED arenaVars

SpecRooms == InitRooms /\ [][NextRooms]_vars

----------------------------------------------------------------------------
(* Claims about the battle aggregate, checked under SpecBattle.            *)

\* the players of a battle that can act, in seating order
CanAct(b) == SelectSeq(b.players, gc_can_act)

\* C1: a call of gc_deploy_card, gc_acquire_card_from_pool, gc_refresh_pool
\* or gc_execute_play_card that is rejected (an Err, or a failure result)
\* leaves the whole battle state as it was before the call.
C1_RejectedCallLeavesState ==
    [][(/\ last'.op \in {"gc_deploy_card", "gc_acquire_card_from_pool",
                         "gc_refresh_pool", "gc_execute_play_card"}
        /\ last'.res = "Err")
       => battle' = battle]_vars

\* the current player, out of action points after a deploy, has a further
\* deploy rejected
C1_Witness ==
    /\ last.op = "gc_deploy_card"
    /\ last.res = "Err"
    /\ last.current
    /\ \E k \in 1..Len(battle.players) :
          /\ battle.players[k].id = gc_current_player_id(battle)
          /\ battle.players[k].action_points = 0
          /\ \E i \in 1..Len(battle.players[k].battlefield) :
                ~gc_is_empty(battle.players[k].battlefield[i])

\* C2: a deploy, an acquisition, a pool refresh, a card play or a turn-combat
\* sweep called for a player who is not the current player is rejected and
\* changes nothing in the battle.
C2_NonCurrentCallerRejected ==
    [][(/\ last'.op \in {"gc_deploy_card", "gc_acquire_card_from_pool", "gc_refresh_pool",
                         "gc_execute_play_card", "gc_execute_turn_combat"}
        /\ ~last'.current)
       => (last'.res = "Err" /\ battle' = battle)]_vars

\* C3: after a card play or a turn-combat sweep has been carried out, when at
\* most one player can act the phase is Finished and the winner is that
\* player, or None when nobody can act; when two or more can act the call
\* has left the phase as it was.
C3_VictoryEvaluated ==
    [][(\/ last'.op = "gc_execute_play_card" /\ last'.res = "success"
        \/ last'.op = "gc_execute_turn_combat" /\ last'.res = "Some")
       => LET able == CanAct(battle') IN
          /\ Len(able) = 0 => (battle'.phase = "Finished" /\ battle'.winner_id = NoPlayer)
          /\ Len(able) = 1 => (battle'.phase = "Finished" /\ battle'.winner_id = able[1].id)
          /\ Len(able) >= 2 => battle'.phase = battle.phase]_vars

\* a sweep has just killed the last players that could act: nobody wins
C3_Witness ==
    /\ last.op = "gc_execute_turn_combat"
    /\ last.res = "Some"
    /\ CanAct(battle) = <<>>
    /\ battle.phase = "Finished"
    /\ battle.winner_id = NoPlayer

\* C4 (checked under SpecServerBattle): once the phase is Finished no
\* operation, the server's end of turn included, changes the phase or the
\* recorded winner.
C4_FinishedIsTerminal ==
    [][battle.phase = "Finished"
       => (battle'.phase = "Finished" /\ battle'.winner_id = battle.winner_id)]_vars

\* C5: gc_next_turn makes the current player the first player after the
\* present one, in circular order, that can act; when nobody can act it
\* leaves the current player and the turn counter alone and evaluates
\* victory: the battle is Finished, without a winner.
C5_NextTurnSkips ==
    [][last'.op = "gc_next_turn"
       => LET n == Len(battle.players)
              cur == battle.current_player_index
              offsets == {k \in 1..n : gc_can_act(At(battle.players, (cur + k) % n))}
          IN IF offsets # {}
             THEN \E k \in offsets :
                     /\ \A j \in offsets : k <= j
                     /\ battle'.current_player_index = (cur + k) % n
             ELSE /\ battle'.current_player_index = cur
                  /\ battle'.turn = battle.turn
                  /\ battle'.phase = "Finished"
                  /\ battle'.winner_id = NoPlayer]_vars

\* of three players the second cannot act, and the first turn advance has
\* passed over it to the third
C5_Witness ==
    /\ last.op = "gc_next_turn"
    /\ Len(battle.players) = 3
    /\ ~gc_can_act(At(battle.players, 1))
    /\ battle.current_player_index = 2
    /\ battle.turn = 2

\* C6: gc_execute_play_card returns a result for every player id, card id
\* and target id: it never panics.
C6_PlayCardNeverPanics == last.res # "panic"

\* the occupied slots (0-based) of a battlefield
OccupiedSlots(slots) == {i \in 0..(Len(slots) - 1) : ~gc_is_empty(At(slots, i))}

\* the player after the current one, whom the turn combat opposes to it
OpponentIndex(b) == (b.current_player_index + 1) % Len(b.players)

\* C36: a card deployed during a player's turn is not eligible to attack in
\* the turn combat of that same turn: it deals no damage in
\* gc_execute_turn_combat until a later turn start has enabled it.  Here the
\* current player has just deployed its only card and runs the turn combat
\* next: the opponent and the opponent's cards lose nothing.
C36_DeployedCardWaits ==
    [][(/\ last.op = "gc_deploy_card"
        /\ last.res = "Ok"
        /\ last'.op = "gc_execute_turn_combat"
        /\ last'.current
        /\ last'.res = "Some"
        /\ Cardinality(OccupiedSlots(
               At(battle.players, battle.current_player_index).battlefield)) = 1)
       => LET before == At(battle.players, OpponentIndex(battle))
              after == At(battle'.players, OpponentIndex(battle))
          IN /\ after.hp = before.hp
             /\ \A k \in 1..Len(before.battlefield) :
                   /\ after.battlefield[k].card = before.battlefield[k].card
                   /\ after.battlefield[k].remaining_hp = before.battlefield[k].remaining_hp
      ]_vars

\* the opposing slots of theirs that a sweep by the cards of mine destroys
DestroyedBySweep(mine, theirs) ==
    {t \in OccupiedSlots(theirs) :
        \E i \in OccupiedSlots(mine) :
            /\ target_slot_index(i) = t
            /\ At(mine, i).card.base_damage >= At(theirs, t).remaining_hp}

\* what the owner of theirs loses when the cards in the slots attackers of
\* mine sweep: the damage of those facing an empty slot
FaceDamage(mine, attackers, theirs) ==
    LET hit(i) == IF target_slot_index(i) < Len(theirs)
                     /\ gc_is_empty(At(theirs, target_slot_index(i)))
                  THEN At(mine, i).card.base_damage ELSE 0
        sum[S \in SUBSET attackers] ==
            IF S = {} THEN 0
            ELSE LET i == CHOOSE k \in S : TRUE IN hit(i) + sum[S \ {i}]
    IN sum[attackers]

\* C37: in gc_execute_turn_combat the current player's sweep is resolved
\* before the opponent's counter-sweep, which runs on the battlefields as
\* they stand after the first sweep: an opponent card destroyed by the first
\* sweep is gone and makes no counter-attack, both players lose their hp only
\* after both sweeps, and one victory evaluation follows.
C37_SweepThenCounterSweep ==
    [][\A attacker \in 1..Len(battle.players) :
          (/\ last'.op = "gc_execute_turn_combat"
           /\ last'.res = "Some"
           /\ battle' = gc_execute_turn_combat(battle, battle.players[attacker].id).b)
          => LET defender == (attacker % Len(battle.players)) + 1
                 mine == battle.players[attacker].battlefield
                 theirs == battle.players[defender].battlefield
                 destroyed == DestroyedBySweep(mine, theirs)
                 survivors == OccupiedSlots(theirs) \ destroyed
                 mine_after == battle'.players[attacker].battlefield
                 theirs_after == battle'.players[defender].battlefield
             IN /\ \A t \in destroyed : gc_is_empty(At(theirs_after, t))
                /\ \A t \in destroyed :
                      target_slot_index(t) < Len(mine) =>
                         At(mine_after, target_slot_index(t)).remaining_hp
                            = At(mine, target_slot_index(t)).remaining_hp
                /\ \A t \in survivors :
                      (target_slot_index(t) \in OccupiedSlots(mine)
                       /\ At(theirs, t).card.base_damage > 0)
                      => At(mine_after, target_slot_index(t)).remaining_hp
                            < At(mine, target_slot_index(t)).remaining_hp
                /\ battle'.players[defender].hp =
                      SatSub(battle.players[defender].hp,
                             FaceDamage(mine, OccupiedSlots(mine), theirs))
                /\ battle'.players[attacker].hp =
                      SatSub(battle.players[attacker].hp,
                             FaceDamage(theirs, survivors, mine))
                /\ gc_is_finished(battle') <=>
                      \/ gc_is_finished(battle)
                      \/ Cardinality({k \in 1..Len(battle'.players) :
                                         gc_can_act(battle'.players[k])}) <= 1
      ]_vars

\* a turn combat of the second player in which its card destroyed the card
\* the first player had deployed opposite, and took no hit back; neither
\* player was hit
C37_Witness ==
    /\ last.op = "gc_execute_turn_combat"
    /\ last.res = "Some"
    /\ Len(battle.players) = 2
    /\ battle.current_player_index = 1
    /\ battle.players[1].hp = DEFAULT_HP
    /\ battle.players[2].hp = DEFAULT_HP
    /\ gc_find_card_in_hand(battle.players[1], "k1") < 0
    /\ battle.players[1].discard = <<>>
    /\ OccupiedSlots(battle.players[1].battlefield) = {}
    /\ \E i \in OccupiedSlots(battle.players[2].battlefield) :
          /\ At(battle.players[2].battlefield, i).card.id = "k2"
          /\ At(battle.players[2].battlefield, i).remaining_hp = 100

----------------------------------------------------------------------------
(* Claims about bosses, checked under SpecBoss.                            *)

\* the call just made is a gc_take_damage_weekly that returned
WeeklyReturned == bossLast'.op = "gc_take_damage_weekly" /\ ~bossLast'.panicked

C15_WeeklyRevival ==
    [][(WeeklyReturned /\ bossLast'.ret.needs_revive) =>
        /\ boss'.current_hp = Max(boss.current_hp \div 2, 1)
        /\ boss'.revive_count = boss.revive_count + 1
        /\ boss'.current_rage = 0
        /\ boss'.current_attack > boss'.base_attack
    ]_vars

\* C16: revive_count never exceeds max_revives.
C16_ReviveCountBounded == boss.revive_count <= boss.max_revives

\* C17: a Dead boss stays Dead, with hp 0, under every operation.
C17_DeadIsTerminal ==
    [][boss.state = "Dead" => (boss'.state = "Dead" /\ boss'.current_hp = 0)]_vars

\* C18: current_rage never exceeds max_rage.
C18_RageCapped == boss.current_rage <= boss.max_rage

\* rage was added to a boss whose rage plus u32::MAX passes u32::MAX, and
\* the call went on
C18_Witness ==
    /\ bossLast.op = "gc_add_rage"
    /\ bossLast.args.amount = U32(65535, 65535)
    /\ ~bossLast.panicked
    /\ boss.current_rage = boss.max_rage
    /\ boss.max_rage > 0

\* C19: current_rage does not decrease across gc_add_rage, nor across a
\* damage call that does not revive the boss.
C19_RageMonotone ==
    [][(\/ bossLast'.op = "gc_add_rage"
        \/ /\ bossLast'.op \in {"gc_take_damage", "gc_take_damage_weekly"}
           /\ boss'.revive_count = boss.revive_count)
       => boss'.current_rage >= boss.current_rage]_vars

\* C20: when gc_add_rage brings the rage of a living boss to max_rage the
\* boss is Enraged afterwards; gc_consume_rage resets the rage to 0 and
\* returns an Enraged boss to Idle.
C20_EnragedAtCap ==
    [][/\ (/\ bossLast'.op = "gc_add_rage"
           /\ ~bossLast'.panicked
           /\ Boss_gc_is_alive(boss)
           /\ boss'.current_rage = boss'.max_rage)
          => boss'.state = "Enraged"
       /\ bossLast'.op = "gc_consume_rage" =>
            /\ boss'.current_rage = 0
            /\ boss.state = "Enraged" => boss'.state = "Idle"
            /\ boss.state # "Enraged" => boss'.state = boss.state
    ]_vars

\* rage alone (no revival) has enraged a living boss
C20_Witness ==
    /\ bossLast.op = "gc_add_rage"
    /\ boss.state = "Enraged"
    /\ boss.current_rage = boss.max_rage
    /\ Boss_gc_is_alive(boss)
    /\ boss.revive_count = 0

\* the call just made is one of the two damage operations, and it returned
DamageReturned ==
    /\ bossLast'.op \in {"gc_take_damage", "gc_take_damage_weekly"}
    /\ ~bossLast'.panicked

\* C22: both damage operations report max(1, amount - floor(defense / 2))
\* as the actual damage, which is at least 1, and lower the hp by it,
\* stopping at 0: a boss that is not killed loses exactly that much, and a
\* boss that is killed and not revived is left with hp 0.
C22_ActualDamage ==
    [][DamageReturned =>
        LET actual == bossLast'.ret.actual_damage
            reduced == boss.current_hp - actual IN
        /\ actual = Max(1, bossLast'.args.damage - (boss.defense \div 2))
        /\ actual >= 1
        /\ reduced > 0 => boss'.current_hp = reduced
        /\ (reduced <= 0 /\ boss'.revive_count = boss.revive_count) => boss'.current_hp = 0
    ]_vars

\* a damage below half the defense was dealt to a living boss and cost it
\* 1 hp
C22_Witness ==
    /\ bossLast.op \in {"gc_take_damage", "gc_take_damage_weekly"}
    /\ bossLast.args.damage < boss.defense \div 2
    /\ bossLast.ret.actual_damage = 1
    /\ boss.current_hp = boss.max_hp - 1

\* C23: after every revival, by either damage operation, current_attack is
\* base_attack * (1 + revive_count * attack_boost_per_revive / 100) rounded
\* down, with the revive_count the revival produced.
C23_RevivedAttackScaled ==
    [][boss'.revive_count = boss.revive_count + 1 =>
        boss'.current_attack =
            (boss'.base_attack * (100 + boss'.revive_count * boss'.attack_boost_per_revive))
                \div 100
    ]_vars

----------------------------------------------------------------------------
(* The claim about repeated damage, checked under SpecDamage.              *)

\* a gc_take_damage call that revived the boss
Revived == bossLast'.op = "gc_take_damage" /\ boss'.revive_count # boss.revive_count

\* C34: under repeated gc_take_damage calls with any damage a boss is
\* revived at most max_revives times, and only a Weekly boss is revived;
\* each revival restores full hp, adds exactly 1 to revive_count and reports
\* died = false; after finitely many calls the boss is Dead with hp 0 and
\* the call reports died = true.
C34_RevivesThenDies ==
    /\ [](/\ boss.revive_count <= boss.max_revives
          /\ boss.boss_type # "Weekly" => boss.revive_count = 0)
    /\ [][Revived =>
            /\ boss.boss_type = "Weekly"
            /\ boss'.revive_count = boss.revive_count + 1
            /\ boss'.current_hp = boss.max_hp
            /\ ~bossLast'.ret.died
            /\ ~bossLast'.panicked]_vars
    /\ <>(/\ boss.state = "Dead"
          /\ boss.current_hp = 0
          /\ bossLast.op = "gc_take_damage"
          /\ bossLast.ret.died)

\* a boss dead after every revival it was allowed
C34_Witness ==
    /\ bossLast.op = "gc_take_damage"
    /\ bossLast.ret.died
    /\ boss.state = "Dead"
    /\ boss.current_hp = 0
    /\ boss.max_revives = 2
    /\ boss.revive_count = 2

----------------------------------------------------------------------------
(* Claims about skill selection, checked under SpecSkills.                 *)

\* the ready skills of a boss, in list order
ReadySkills(b) == SelectSeq(b.skills, gc_is_ready)

\* C21: gc_select_skill returns the rage skill when the rage is full;
\* otherwise it returns None when no skill is ready, and else the first
\* skill in the list among the ready skills with the longest cooldown.
C21_SelectSkill ==
    bossLast.op = "gc_select_skill" =>
        LET ret == bossLast.ret
            ready == ReadySkills(boss) IN
        IF boss.current_rage >= boss.max_rage
        THEN ret = SomeSkill(boss.rage_skill)
        ELSE IF ready = <<>>
        THEN ret = NoSkill
        ELSE /\ ret.some
             /\ \E k \in 1..Len(ready) :
                    /\ ret.skill = ready[k]
                    /\ \A j \in 1..Len(ready) : ready[j].cooldown <= ready[k].cooldown
                    /\ \A j \in 1..(k - 1) : ready[j].cooldown < ready[k].cooldown

----------------------------------------------------------------------------
(* Claims about monster combat, checked under SpecArena.                   *)

\* the effective attack of the attacker of the last call, on the player's
\* terrain, and the effective defense of its defender, on the enemy's
LastAtk == effective_atk(arenaLast.args.attacker, arena.player_terrain)

LastDef == effective_def(arenaLast.args.defender, arena.enemy_terrain)

Zero == ToU32(0)

\* C24: with effective attack A and effective defense D, both resolvers
\* give: A > D, the defender takes A - D and the attacker nothing; A < D,
\* the attacker takes D - A and the defender nothing; A = D, neither takes
\* damage and neither is destroyed.
C24_ThreeWayOutcome ==
    /\ arenaLast.op = "gc_execute_monster_battle" =>
         LET r == arenaLast.ret IN
         /\ WLess(LastDef, LastAtk) =>
              (r.damage = WSub(LastAtk, LastDef) /\ r.counter_damage = Zero)
         /\ WLess(LastAtk, LastDef) =>
              (r.counter_damage = WSub(LastDef, LastAtk) /\ r.damage = Zero)
         /\ (LastAtk = LastDef /\ is_alive(arenaLast.args.attacker)
                               /\ is_alive(arenaLast.args.defender)) =>
              /\ r.damage = Zero
              /\ r.counter_damage = Zero
              /\ ~r.defender_destroyed
              /\ ~r.attacker_destroyed
    /\ (arenaLast.op = "gc_calculate_attack" /\ arenaLast.args.defender # NoMonster) =>
         LET r == arenaLast.ret IN
         /\ WLess(LastDef, LastAtk) =>
              (r.damage = WSub(LastAtk, LastDef) /\ ~r.attacker_destroyed)
         /\ WLess(LastAtk, LastDef) =>
              (r.damage = WSub(LastDef, LastAtk) /\ ~r.target_destroyed)
         /\ (LastAtk = LastDef /\ is_alive(arenaLast.args.attacker)
                               /\ is_alive(arenaLast.args.defender)) =>
              /\ r.damage = Zero
              /\ ~r.target_destroyed
              /\ ~r.attacker_destroyed

\* C25: a resolver reports a side destroyed exactly when the damage that
\* side takes is at least its current hp.
C25_DestroyedByDamage ==
    /\ arenaLast.op = "gc_execute_monster_battle" =>
         LET r == arenaLast.ret IN
         /\ r.defender_destroyed <=> WLeq(arenaLast.args.defender.current_hp, r.damage)
         /\ r.attacker_destroyed <=> WLeq(arenaLast.args.attacker.current_hp, r.counter_damage)
    /\ (arenaLast.op = "gc_calculate_attack" /\ arenaLast.args.defender # NoMonster) =>
         LET r == arenaLast.ret
             taken_by_defender == IF WLess(LastDef, LastAtk) THEN WSub(LastAtk, LastDef) ELSE Zero
             taken_by_attacker == IF WLess(LastAtk, LastDef) THEN WSub(LastDef, LastAtk) ELSE Zero
         IN
         /\ r.target_destroyed <=> WLeq(arenaLast.args.defender.current_hp, taken_by_defender)
         /\ r.attacker_destroyed <=> WLeq(arenaLast.args.attacker.current_hp, taken_by_attacker)

\* C26: after gc_execute_monster_battle no monster with current_hp 0
\* occupies a slot of either side of the arena.
C26_NoDeadOccupant ==
    arenaLast.op = "gc_execute_monster_battle" =>
        \A board \in {arena.player_monsters, arena.enemy_monsters} :
            \A i \in Occupied(board) : is_alive(At(board, i))

\* C27: both free-target selections return the occupied enemy slot whose
\* terrain-adjusted attack is lowest, the lowest index among equals, and
\* return None exactly when no enemy slot is occupied.
C27_WeakestTarget ==
    arenaLast.op = "select_target" =>
        \A ret \in {arenaLast.ret.auto, arenaLast.ret.weakest} :
            LET occupied == Occupied(arena.enemy_monsters)
                eff(i) == effective_atk(At(arena.enemy_monsters, i), arena.enemy_terrain)
            IN IF occupied = {} THEN ret = -1
               ELSE /\ ret \in occupied
                    /\ \A i \in occupied : WLeq(eff(ret), eff(i))
                    /\ \A i \in occupied : i < ret => WLess(eff(ret), eff(i))

----------------------------------------------------------------------------
(* Claims about the turn state, checked under SpecTurn.                    *)

\* the phase reached by a number of next_phase calls from Draw
PhaseAfter(count) ==
    CASE count = 1 -> "Main1"
      [] count = 2 -> "Battle"
      [] count = 3 -> "Main2"
      [] count = 4 -> "End"
      [] count = 5 -> "Draw"

\* C28: of five consecutive next_phase calls from Draw the first four
\* reach Main1, Battle, Main2 and End with the turn number and the active
\* side as they were, and the fifth reaches Draw with the turn number one
\* higher and the active side flipped.
C28_PhaseCycle ==
    (arenaLast.op = "next_phase" /\ arenaLast.streak.from.phase = "Draw") =>
        LET from == arenaLast.streak.from
            count == arenaLast.streak.count IN
        /\ turn_state.phase = PhaseAfter(count)
        /\ count < 5 => /\ turn_state.turn_number = from.turn_number
                        /\ turn_state.is_player_turn = from.is_player_turn
        /\ count = 5 => /\ turn_state.turn_number = from.turn_number + 1
                        /\ turn_state.is_player_turn = ~from.is_player_turn

\* five consecutive next_phase calls from Draw have been made
C28_Witness ==
    /\ arenaLast.op = "next_phase"
    /\ arenaLast.streak.count = 5
    /\ arenaLast.streak.from.phase = "Draw"
    /\ turn_state.turn_number = 2

\* C29: attacked_slots never holds a slot twice, and can_monster_attack is
\* true of a slot exactly when the phase is Battle and the slot has not
\* been marked since the last wrap from End to Draw.
C29_MarkAttacked ==
    /\ \A j, k \in 1..Len(turn_state.attacked_slots) :
          turn_state.attacked_slots[j] = turn_state.attacked_slots[k] => j = k
    /\ \A slot \in TurnSlots :
          can_monster_attack(turn_state, slot)
              <=> (turn_state.phase = "Battle" /\ slot \notin arenaLast.marked)

\* a slot marked before has been marked again, in the Battle phase
C29_Witness ==
    /\ arenaLast.op = "mark_attacked"
    /\ arenaLast.args.marked_before
    /\ turn_state.phase = "Battle"
    /\ Len(turn_state.attacked_slots) = 1
    /\ turn_state.attacked_slots[1] = arenaLast.args.slot
    /\ turn_state.turn_number = 2

\* C30: every slot in attacked_slots is an occupied slot of the player's
\* side.
C30_AttackedAreOccupied ==
    \A k \in 1..Len(turn_state.attacked_slots) :
        turn_state.attacked_slots[k] \in Occupied(arena.player_monsters)

----------------------------------------------------------------------------
(* Claims about effective stats, checked under SpecStats.                  *)

\* C31: along the upgrade progression (1 star, 2 stars, 3 stars, golden 1,
\* golden 2, ...) effective attack and effective defense never decrease, on
\* every terrain and for every u32 base stat, and effective defense is never
\* negative.
C31_StatsMonotone ==
    [][arenaLast'.op = "gc_merge_monsters" =>
         \A t \in StatsTerrains :
            /\ WLeq(effective_atk(bench[1], t), effective_atk(bench'[1], t))
            /\ WLeq(effective_def(bench[1], t), effective_def(bench'[1], t))
            /\ WLeq(ToU32(0), effective_def(bench'[1], t))]_vars

\* a value held to the u32 range without wrapping
SaturatedU32(w) == IF w.hi >= 65536 THEN U32Max ELSE w

\* the stat times the star multiplier, the fraction dropped
StarMultiplied(m, stat) == SaturatedU32(WDiv(WMul(stat, star_multiplier_halves(m)), 2))

\* the terrain percentage on top, the fraction dropped, not below least
TerrainApplied(base, percent, least) ==
    SaturatedU32(WMax(WDiv(WMul(base, 100 + percent), 100), least))

\* C32: effective attack and effective defense are the base stat times the
\* star multiplier with the terrain percentage applied on top, fractions
\* dropped, the arithmetic stopping at the u32 bounds and never wrapping.
C32_StatsSaturate ==
    arenaLast.op = "effective" =>
        LET m == arenaLast.args.monster
            modifier == gc_get_terrain_modifier(arenaLast.args.terrain, m.attribute)
        IN /\ arenaLast.ret.atk =
                 TerrainApplied(StarMultiplied(m, m.base_atk), modifier.atk_percent, ToU32(1))
           /\ arenaLast.ret.def =
                 TerrainApplied(StarMultiplied(m, m.base_def), modifier.def_percent, ToU32(0))

----------------------------------------------------------------------------
(* The claim about terrain selection, checked under SpecTerrain.           *)

\* the weight of the first k entries
RECURSIVE CumulativeWeight(_, _)
CumulativeWeight(weights, k) ==
    IF k = 0 THEN 0 ELSE weights[k].weight + CumulativeWeight(weights, k - 1)

\* ret is the terrain of the first entry whose cumulative weight exceeds
\* random_value mod the total weight, Plain when the total weight is 0
ThresholdMatch(weights, random_value, ret) ==
    LET total == CumulativeWeight(weights, Len(weights))
    IN IF total = 0 THEN ret = "Plain"
       ELSE \E k \in 1..Len(weights) :
               /\ CumulativeWeight(weights, k) > random_value % total
               /\ \A j \in 1..(k - 1) : CumulativeWeight(weights, j) <= random_value % total
               /\ ret = weights[k].terrain

\* the terrain the examples name for a random value, given the weights
\* (Plain, 60), (Forest, 30), (Mountain, 10)
GrasslandExample(random_value, ret) ==
    /\ random_value = 59 => ret = "Plain"
    /\ random_value = 60 => ret = "Forest"
    /\ random_value = 89 => ret = "Forest"
    /\ random_value = 90 => ret = "Mountain"

\* C33: gc_select_terrain returns the first entry whose cumulative weight
\* exceeds random_value mod total_weight, and Plain when the total weight is
\* 0; with the weights (Plain, 60), (Forest, 30), (Mountain, 10) the random
\* values 59, 60, 89 and 90 give Plain, Forest, Forest and Mountain.  Both
\* draws of gc_generate_battle_terrain are such selections.
C33_SelectTerrain ==
    /\ arenaLast.op = "gc_select_terrain" =>
          /\ ThresholdMatch(arenaLast.args.weights, arenaLast.args.random_value, arenaLast.ret)
          /\ arenaLast.args.weights =
                 <<Weight("Plain", 60), Weight("Forest", 30), Weight("Mountain", 10)>>
                => GrasslandExample(arenaLast.args.random_value, arenaLast.ret)
    /\ arenaLast.op = "gc_generate_battle_terrain" =>
          LET weights == gc_apply_enemy_modifier(
                             gc_get_base_terrain_weights(arenaLast.args.world_terrain),
                             arenaLast.args.enemy_type)
              seed == arenaLast.args.random_seed
          IN /\ ThresholdMatch(weights, seed % 100, arenaLast.ret.player_terrain)
             /\ ThresholdMatch(weights, (seed \div 100) % 100, arenaLast.ret.enemy_terrain)
             /\ arena.player_terrain = arenaLast.ret.player_terrain
             /\ arena.enemy_terrain = arenaLast.ret.enemy_terrain

\* a selection at the boundary between two entries: 60 of (Plain, 60),
\* (Forest, 30), (Mountain, 10) is Forest
C33_Witness ==
    /\ arenaLast.op = "gc_select_terrain"
    /\ arenaLast.args.weights =
          <<Weight("Plain", 60), Weight("Forest", 30), Weight("Mountain", 10)>>
    /\ arenaLast.args.random_value = 60
    /\ arenaLast.ret = "Forest"

----------------------------------------------------------------------------
(* Claims about summoning, checked under SpecSummon.                       *)

\* the number of tributes the rules ask of a level: none up to 4, one for 5
\* and 6, two from 7 on
RequiredByLevel(level) == IF level <= 4 THEN 0 ELSE IF level \in {5, 6} THEN 1 ELSE 2

\* the different slots a sacrifice list names that are on the board and hold
\* a monster
DistinctTributes(sacrifice_slots, occupied_slots) ==
    {sacrifice_slots[k] : k \in 1..Len(sacrifice_slots)}
        \cap {slot \in 0..(ArenaSlotCount - 1) : occupied_slots[slot + 1]}

\* C38: gc_validate_tribute_summon returns Ok only when the sacrifice list
\* names at least as many different, in-range, occupied slots as the level
\* requires (0 up to level 4, 1 for levels 5 and 6, 2 from level 7 on); a
\* slot named twice counts once.
C38_TributesAreDistinct ==
    (arenaLast.op = "gc_validate_tribute_summon" /\ arenaLast.ret = "Ok")
        => Cardinality(DistinctTributes(arenaLast.args.sacrifice_slots,
                                        arenaLast.args.occupied_slots))
               >= RequiredByLevel(arenaLast.args.level)

\* C39: a successful summon_player_monster leaves normal_summon_used true,
\* only on_turn_start clears the flag, no other call changes it, and
\* gc_validate_normal_summon returns Ok exactly when the flag it is given is
\* false and the level is at most 4 - so that a validation with the arena's
\* flag rejects every level between a summon and the next turn start.
C39_OneNormalSummonPerTurn ==
    [][/\ (arenaLast'.op = "summon_player_monster" /\ arenaLast'.ret = "Ok")
              => arena'.normal_summon_used
       /\ arenaLast'.op = "on_turn_start" => ~arena'.normal_summon_used
       /\ arenaLast'.op \notin {"summon_player_monster", "on_turn_start"}
              => arena'.normal_summon_used = arena.normal_summon_used
       /\ arenaLast'.op = "gc_validate_normal_summon"
              => (arenaLast'.ret = "Ok"
                     <=> (~arenaLast'.args.normal_summon_used /\ arenaLast'.args.level <= 4))]_vars

----------------------------------------------------------------------------
(* The claim about room membership, checked under SpecRooms.               *)

\* the rooms that exist and list a player
RoomsListing(pid) ==
    {r \in RoomIds : /\ server.rooms[r] # NoRoom
                     /\ \E k \in 1..Len(server.rooms[r].players) :
                            server.rooms[r].players[k].id = pid}

\* no connection is inside a request or a disconnect
Quiescent == \A c \in Sockets : sockets[c].pc = "idle"

\* C40: whenever no request is in flight, every player id is on the list of
\* at most one room, a connected player's room_id is Some(r) exactly for the
\* room r that exists and lists the player, and a player that is not
\* connected is on no room's list.
C40_MembershipConsistent ==
    Quiescent =>
        \A pid \in PlayerIds :
            /\ Cardinality(RoomsListing(pid)) <= 1
            /\ server.players[pid] # NotConnected
                   => \A r \in RoomIds : (server.players[pid].room_id = r) <=> (r \in RoomsListing(pid))
            /\ server.players[pid] = NotConnected => RoomsListing(pid) = {}

----------------------------------------------------------------------------
(* The claim about the turn counter, checked under SpecEndTurn.            *)

\* C35: the turn counter goes up by exactly 1 only when the turn wraps
\* around to a player whose index is not greater than the previous current
\* player's, and stays as it is when the turn passes to a later player; the
\* server's end of turn and the browser build's end_turn give the same turn
\* number and current player for the same end-turn requests.
C35_TurnCounter ==
    [][LET before == replay[1].battle
           after == replay'[1].battle
       IN /\ after.current_player_index > before.current_player_index
               => after.turn = before.turn
          /\ after.turn # before.turn
               => /\ after.turn = before.turn + 1
                  /\ after.current_player_index <= before.current_player_index
          /\ replay'[1].battle.turn = replay'[2].battle.turn
          /\ replay'[1].battle.current_player_index = replay'[2].battle.current_player_index
      ]_vars

----------------------------------------------------------------------------
(* The claim about replays, checked under SpecReplay.                      *)

\* C7: two battles created from the same arguments and driven by the same
\* calls with the same arguments are in identical states, card pool order
\* and the ids of merged monsters included.
C7_ReplicasAgree == replay[1] = replay[2]

====
